---- MODULE Spec2Model ----
(***************************************************************************)
(* Verification model of the server-side ReplicateManager of naia          *)
(* (src/server/src/replicate/replicate_manager.rs): one connection's view  *)
(* of the replicated objects, entities and components, its queue of        *)
(* replicate actions, the per-packet records of what was sent, and the     *)
(* reaction to packet delivery and packet loss.                            *)
(*                                                                         *)
(* A diff mask is modelled as the set of its set bits.  The manager is one *)
(* record (the fields of the struct); every method is an operator from the *)
(* manager before the call to the manager after it.  A panic (expect,      *)
(* panic!) sets the field `panicked`: the process has aborted.             *)
(*                                                                         *)
(* Beside it: the packet writer that write_replicate_action fills, and the *)
(* handshake of the client (src/client/src/client.rs), and the writer of   *)
(* commands of the client (src/client/src/packet_writer.rs), and the       *)
(* channels between the WebRTC transport of the server socket and its      *)
(* callers (src/socket/server/src/transports/webrtc/socket.rs), and a      *)
(* Property with its mutator (src/shared/src/protocol/property.rs), and    *)
(* what derive(Replicate) generates (src/shared/derive/src/replicate.rs).  *)
(***************************************************************************)
EXTENDS Integers, Sequences, FiniteSets, TLC

\* ------------------------------------------------------------------ bounds
MaxPacket == 4      \* packets 0 .. MaxPacket-1 can be written
MaxCalls  == 3      \* add_*, pawn and property-write calls of the application
MaxDrops  == 2      \* packets the network loses
MaxQueue  == 3      \* collect_replicate_updates is not called on a longer queue
MaxWrites == 4      \* calls in the view of repeated property writes
MaxRequests == 3    \* handshake requests the client sends
HeartbeatInterval == 2      \* time units of silence before a Heartbeat is due
PingInterval == 3           \* time units between two Pings
DisconnectionTimeout == 4   \* time units without a packet heard before the drop
MaxHistory == 4     \* commands the history of a pawn holds
MaxBuffered == 3    \* payloads the exploration lets a channel hold
MaxNotes == 3       \* calls of the mutator the exploration records
MaxFields == 9      \* fields of the struct Replicate is derived on
MaxAgain == 4       \* calls in the view where an entity is added again
MaxProps == 3       \* properties of a replica whose values are enumerated
MaxForwarded == 3   \* payloads the socket carries in each direction
MaxConditioned == 2 \* the same for a socket with a link conditioner

\* ------------------------------------------------------- program constants
PacketMod == 65536  \* packet indices are u16 and wrap
CountMod  == 256    \* the per-packet action counter is a u8
MTU_SIZE  == 800    \* largest payload; here large enough for 255 small actions
TickMod   == 65536  \* ticks are u16 and wrap
MAX_PAST_COMMANDS == 3

ObjKeys  == {1}         \* global keys the application uses for objects
CompKeys == {2, 3}      \* global keys the application uses for components
OneComp  == {2}         \* the component of the views with a single component
Keys     == ObjKeys \cup CompKeys
EntKeys  == {1}         \* global entity keys
Bits     == {0, 1}      \* properties (diff mask bits) of every replicate
Packets  == 0 .. MaxPacket

\* --------------------------------------------------------------- utilities
\* the orders in which the iterator of a HashSet or HashMap may yield the
\* members S: the hasher is seeded at random, every order can come out
IterationOrders(S) ==
    {order \in [1 .. Cardinality(S) -> S] :
        \A i, j \in 1 .. Cardinality(S) : i # j => order[i] # order[j]}

\* the members of S as the iteration `order` yields them
InOrder(order, S) == SelectSeq(order, LAMBDA x : x \in S)

\* the lists of distinct members of S (a caller's Vec)
ListsOf(S) == UNION {IterationOrders(T) : T \in SUBSET S}

ElementsOf(list) == {list[i] : i \in 1 .. Len(list)}

MapPut(f, k, v) == [x \in (DOMAIN f) \cup {k} |-> IF x = k THEN v ELSE f[x]]
MapRemove(f, k) == [x \in (DOMAIN f) \ {k} |-> f[x]]
EmptyMap == [x \in {} |-> 0]

Front(s) == SubSeq(s, 1, Len(s) - 1)
Last(s) == s[Len(s)]

\* ------------------------------------------------------------- DiffMask
DiffMaskOr(a, b)   == a \cup b
DiffMaskNand(a, b) == a \ b
DiffMaskIsClear(a) == a = {}

\* ------------------------------------------------------------- KeyGenerator
KeyGeneratorNew == [next |-> 0, recycled |-> << >>]
KeyGenerate(g) ==
    IF Len(g.recycled) > 0
    THEN [key |-> Head(g.recycled), gen |-> [g EXCEPT !.recycled = Tail(@)]]
    ELSE [key |-> g.next, gen |-> [g EXCEPT !.next = (@ + 1) % PacketMod]]
KeyRecycle(g, k) == [g EXCEPT !.recycled = Append(@, k)]

\* ------------------------------------------------------------- records
\* status "None" stands for the absence of the record from the map
\* born: history field, the number of reliable actions enqueued before the
\* record was installed (an action with a greater id is younger than the record)
NoRecord == [status |-> "None", local_key |-> 0, diff_mask |-> {}, born |-> 0]
NoEntity == [status |-> "None", local_key |-> 0, components |-> {}, born |-> 0]

ReplicateRecordNew(local_key, status, born) ==
    [status |-> status, local_key |-> local_key, diff_mask |-> {}, born |-> born]
EntityRecordNew(local_key, components, born) ==
    [status |-> "Creating", local_key |-> local_key, components |-> components,
     born |-> born]

\* ------------------------------------------------------------- ReplicateAction
\* One shape for all variants.  k: global key (object, component or entity);
\* lk: its local key; ek: local entity key (AddComponent); live: the diff
\* mask is the shared handle of the record's mask; m: the mask when it is a
\* copy; cl: << >> for None, <<list>> for Some(list) of <<global, local>>
\* component keys (CreateEntity); id: history field, the rank of the action
\* among the reliable actions in order of first enqueue (0 for updates).
Action(t, k, lk) ==
    [t |-> t, k |-> k, lk |-> lk, ek |-> 0, live |-> FALSE, m |-> {},
     cl |-> << >>, id |-> 0]

ReliableTypes == {"CreateObject", "DeleteReplicate", "AssignPawn", "UnassignPawn",
                  "CreateEntity", "DeleteEntity", "AssignPawnEntity",
                  "UnassignPawnEntity", "AddComponent"}
UpdateTypes == {"UpdateReplicate", "UpdatePawn"}

\* ------------------------------------------------------ the packet writer
\* The PacketWriter as write_replicate_action uses it: the action counter,
\* the length of replicate_working_bytes, and the bytes of the other
\* sections of the packet (message_bytes).
PacketWriterNew ==
    [replicate_action_count |-> 0, replicate_working_bytes |-> 0, message_bytes |-> 0]

bytes_number(w) == w.replicate_working_bytes + w.message_bytes

PayloadSizes == {395}           \* bytes a replicate writes for its value
ComponentCounts == {1, 256}     \* components bundled in a CreateEntity
MaskSizes == {1}                \* bytes of the diff mask of an update
MessageSizes == {300}           \* bytes of one message section write

\* what the writer is asked to write: the type of the action, the payload
\* bytes of its replicate, the number of bundled components (CreateEntity),
\* the bytes of the diff mask (UpdateReplicate)
WriterInputs ==
    [t : {"DeleteReplicate"}, payload : {0}, n : {0}, mask : {0}]
    \cup [t : {"CreateObject", "UpdatePawn", "AddComponent"},
          payload : PayloadSizes, n : {0}, mask : {0}]
    \cup [t : {"UpdateReplicate"}, payload : PayloadSizes, n : {0}, mask : MaskSizes]
    \cup [t : {"CreateEntity"}, payload : PayloadSizes, n : ComponentCounts, mask : {0}]

\* DiffMask::write: the number of bytes of the mask, then the bytes
DiffMaskWritten(mask) == 1 + mask

\* length of replicate_total_bytes: the type byte, the header of the action
\* and its payload
TotalBytes(a) ==
    1 + CASE a.t = "CreateObject"    -> 2 + 2 + a.payload
          [] a.t = "UpdateReplicate" -> 2 + DiffMaskWritten(a.mask) + a.payload
          [] a.t = "UpdatePawn"      -> 2 + a.payload
          [] a.t = "CreateEntity"    -> 2 + 1 + a.n * (2 + 2 + a.payload)
          [] a.t = "AddComponent"    -> 2 + 2 + 2 + a.payload
          [] OTHER                   -> 2

\* the panic of the CreateEntity arm: the number of components does not fit
\* the u8 that announces it
TooManyComponents(a) == a.t = "CreateEntity" /\ a.n > 255

\* write_replicate_action: the writer after the call, the value returned,
\* and whether the call panicked instead of returning
write_replicate_action(w, a) ==
    LET first == IF w.replicate_action_count = 0 THEN 2 ELSE 0
        hypothetical_next_payload_size == bytes_number(w) + TotalBytes(a) + first
    IN  IF TooManyComponents(a)
        THEN [w |-> w, ok |-> FALSE, panicked |-> TRUE]
        ELSE IF hypothetical_next_payload_size < MTU_SIZE
        THEN IF w.replicate_action_count = 255
             THEN [w |-> w, ok |-> FALSE, panicked |-> FALSE]
             ELSE [w |-> [w EXCEPT !.replicate_action_count = (@ + 1) % CountMod,
                                   !.replicate_working_bytes = @ + TotalBytes(a)],
                   ok |-> TRUE, panicked |-> FALSE]
        ELSE [w |-> w, ok |-> FALSE, panicked |-> FALSE]

\* ------------------------------------------------ the writer of commands
\* wrapping_diff(a, b) = (a - b) as i16
wrapping_diff(a, b) ==
    LET d == (a - b) % TickMod
    IN  IF d >= TickMod \div 2 THEN d - TickMod ELSE d

CommandTicks == {0, 1, 2, 3, 300, 65535}  \* ticks commands are issued at
HostTicks == {0, 65535}                   \* host ticks commands are written at
CommandBytes == 100                 \* bytes a command writes for its value

\* The client's PacketWriter: the command counter, the length of
\* command_working_bytes, and the bytes its message_writer holds.
CommandWriterNew ==
    [command_count |-> 0, command_working_bytes |-> 0, message_bytes |-> 0]

\* PacketWriter::bytes_number of the client: the bytes of the commands and
\* those of the message writer
client_bytes_number(w) == w.command_working_bytes + w.message_bytes

\* PacketWriter::has_bytes of the client
has_bytes(w) == w.command_count # 0 \/ w.message_bytes # 0

\* PacketWriter::write_message of the client, for a message of n bytes: the
\* message writer takes it when its own section stays below MTU_SIZE
write_message(w, n) ==
    LET hypothetical_next_payload_size ==
            w.message_bytes + n + (IF w.message_bytes = 0 THEN 2 ELSE 0)
    IN  IF hypothetical_next_payload_size < MTU_SIZE
        THEN [w |-> [w EXCEPT !.message_bytes = @ + n], ok |-> TRUE]
        ELSE [w |-> w, ok |-> FALSE]

\* PacketWriter::get_bytes of the client: the commands leave when there are
\* any, then the messages
get_bytes(w) ==
    [command_count |-> 0,
     command_working_bytes |-> IF w.command_count # 0 THEN 0
                               ELSE w.command_working_bytes,
     message_bytes |-> 0]

\* the loop of write_command over the history, most recent command first:
\* iter is what the iterator still holds, acc the tick differences written
RECURSIVE PastCommands(_, _, _, _)
PastCommands(iter, host_tick, past_commands_number, acc) ==
    IF ~(Len(acc) < past_commands_number) \/ iter = << >> THEN acc
    ELSE LET diff == wrapping_diff(Head(iter), host_tick)
         IN  IF diff > 0 /\ diff <= 255
             THEN PastCommands(Tail(iter), host_tick, past_commands_number,
                               Append(acc, diff))
             ELSE PastCommands(Tail(iter), host_tick, past_commands_number, acc)

\* the history as command_history_iter(pawn_key, true) yields it
Reversed(s) == [i \in 1 .. Len(s) |-> s[Len(s) + 1 - i]]

\* what write_command serializes for one command: the count byte of the
\* header (past_command_index), the tick differences of the past commands,
\* the length of command_total_bytes
SerializedCommand(history, host_tick, past_commands_number) ==
    LET past == PastCommands(Reversed(history), host_tick, past_commands_number, << >>)
    IN  [past_command_index |-> Len(past),
         past |-> past,
         bytes |-> 1 + 2 + 2 + 1 + CommandBytes + Len(past) * (1 + CommandBytes)]

\* writing as many past commands as the history holds
write_command_all_past(w, history, host_tick) ==
    LET c == SerializedCommand(history, host_tick, Len(history))
        hypothetical_next_payload_size ==
            client_bytes_number(w) + c.bytes + (IF w.command_count = 0 THEN 2 ELSE 0)
    IN  IF hypothetical_next_payload_size < MTU_SIZE
        THEN [w |-> [w EXCEPT !.command_count = @ + 1,
                              !.command_working_bytes = @ + c.bytes],
              ok |-> TRUE, command |-> <<c>>]
        ELSE [w |-> w, ok |-> FALSE, command |-> << >>]

\* write_command: the writer after the call, the value returned and the
\* command as it was serialized
write_command(w, history, host_tick) ==
    LET n == IF Len(history) < MAX_PAST_COMMANDS THEN Len(history) ELSE MAX_PAST_COMMANDS
        c == SerializedCommand(history, host_tick, n)
        hypothetical_next_payload_size ==
            client_bytes_number(w) + c.bytes + (IF w.command_count = 0 THEN 2 ELSE 0)
    IN  IF hypothetical_next_payload_size < MTU_SIZE
        THEN [w |-> [w EXCEPT !.command_count = @ + 1,
                              !.command_working_bytes = @ + c.bytes],
              ok |-> TRUE, command |-> <<c>>]
        ELSE [w |-> w, ok |-> FALSE, command |-> << >>]

\* ------------------------------------------------ the WebRTC socket
Payloads == {1, 2}

\* Socket::new(config), with what listen creates still absent:
\* link_condition is whether config.link_condition is Some, sender_channel is
\* the channel::bounded(1) that hands the async sender over ("empty", "full",
\* "taken"), from_client and to_client are the channels of payloads,
\* receiving and sending the payload each task holds between its two awaits,
\* held the payloads inside the conditioned receiver.
\* History: sent the payloads the caller sent, wire those the sender task gave
\* to the async sender, heard those the async socket received, taken those
\* the packet receiver took out of from_client, got those the caller
\* received, early the number queued when the sender was taken
SocketNew(link_condition) ==
    [link_condition |-> link_condition,
     io |-> FALSE, panicked |-> FALSE, sender_channel |-> "empty",
     from_client |-> << >>, to_client |-> << >>,
     receiving |-> << >>, sending |-> << >>, held |-> [p \in Payloads |-> 0],
     sent |-> << >>, wire |-> << >>, heard |-> << >>, taken |-> << >>,
     got |-> << >>, early |-> 0]

\* what the conditioned receiver does with the payloads it takes out of the
\* channel: copies[i] is the number of copies of the i-th payload it keeps
\* (none: dropped, two: duplicated); the payloads kept wait in any order
link_conditioner(held, q, copies) ==
    [p \in Payloads |->
        held[p] + Cardinality({i \in 1 .. Len(q) : q[i] = p /\ copies[i] = 1})
                + 2 * Cardinality({i \in 1 .. Len(q) : q[i] = p /\ copies[i] = 2})]

\* a channel that hands the newest payload out first
unbounded_send_front(q, p) == <<<<p>> \o q>>

\* a channel::unbounded(): send always succeeds at once
unbounded_send(q, p) == <<Append(q, p)>>

\* ------------------------------------------------ Property<T>
Values == {0, 1, 2}          \* values of the inner type
MutatorIndices == {0, 7}     \* mutator_index: u8

\* Property::new
PropertyNew(value, mutator_index) ==
    [inner |-> value, mutator |-> FALSE, mutator_index |-> mutator_index]

\* PropertyMutator::mutate(index), as the calls it receives
mutate(log, index) == Append(log, index)

\* Property::set_mutator
set_mutator(p) == [p EXCEPT !.mutator = TRUE]

\* Deref::deref: the value, nothing else
deref(p) == p.inner

\* DerefMut::deref_mut followed by the caller's assignment through the
\* reference: the property and the calls of the mutator afterwards
deref_mut(p, log, value) ==
    [p |-> [p EXCEPT !.inner = value],
     log |-> IF p.mutator THEN mutate(log, p.mutator_index) ELSE log]

\* Property::mirror: **self = (**other).clone()
mirror(p, log, other) == deref_mut(p, log, deref(other))

\* Property::new_read: the value read from the packet, no mutator
new_read(value, mutator_index) ==
    [inner |-> value, mutator |-> FALSE, mutator_index |-> mutator_index]

\* Property::read: self.inner = the value read from the packet
read(p, value) == [p EXCEPT !.inner = value]

\* Property::default: the default value, no mutator, index 0
PropertyDefault == PropertyNew(0, 0)

\* feature bevy_support, Struct::field_mut and field_at_mut followed by the
\* caller's write through the reference: the field named gets the value
ReflectedFields == {"inner", "mutator", "mutator_index"}
field_mut(p, name, value) == [p EXCEPT ![name] = value]

\* feature bevy_support, Reflect::set: *self = value.take()?
reflect_set(p, value) == value

\* feature bevy_support, Reflect::apply: each field of the value is applied
\* through field_mut
reflect_apply(p, value) ==
    field_mut(field_mut(field_mut(p, "inner", value.inner),
                        "mutator", value.mutator),
              "mutator_index", value.mutator_index)

\* ---- EntityProperty and VecDequeEntityProperty
\* An EntityProperty is its handle_prop, a Property whose value is the
\* Option of a handle (0 for None); a VecDequeEntityProperty is the sequence
\* of its elements.

\* VecDequeEntityProperty::new: one element, EntityProperty::new
vec_deque_new(mutator_index) == <<PropertyNew(0, mutator_index)>>

\* VecDequeEntityProperty::set_mutator: every element has it set
vec_deque_set_mutator(q) == [i \in 1 .. Len(q) |-> set_mutator(q[i])]

\* the elements of q from the k-th on are assigned the values, one after the
\* other and each through deref_mut, for as long as there is a value for the
\* element: EntityProperty::set (*self.handle_prop = Some(new_handle)),
\* EntityProperty::mirror (*self.handle_prop = other.handle()) and
\* EntityProperty::read (*self.handle_prop = the Option read)
RECURSIVE ElementsAssigned(_, _, _, _)
ElementsAssigned(q, log, values, k) ==
    IF k > Len(q) \/ k > Len(values) THEN [q |-> q, log |-> log]
    ELSE LET r == deref_mut(q[k], log, values[k])
         IN  ElementsAssigned([q EXCEPT ![k] = r.p], r.log, values, k + 1)

\* VecDequeEntityProperty::set: a new queue of EntityProperty::default()
\* elements, each set to its entity, replaces the old one
vec_deque_set(q, log, entities) ==
    ElementsAssigned([i \in 1 .. Len(entities) |-> PropertyDefault], log, entities, 1)

\* VecDequeEntityProperty::mirror: the elements are zipped with those of the
\* other deque and each mirrors its partner; the length stays
vec_deque_mirror(q, log, other) ==
    ElementsAssigned(q, log, [i \in 1 .. Len(other) |-> deref(other[i])], 1)

\* A packet holds the length written for a deque and the Options that follow
\* it; a packet cut short holds fewer Options than its length says.

\* VecDequeEntityProperty::read: an error when the length is not the deque's
\* own; else the elements read their values one after the other, and the
\* first that finds no value returns the error, the elements before it
\* having been assigned
vec_deque_read(q, log, packet) ==
    IF packet.length # Len(q) THEN [q |-> q, log |-> log, ok |-> FALSE]
    ELSE LET r == ElementsAssigned(q, log, packet.values, 1)
         IN  [q |-> r.q, log |-> r.log, ok |-> Len(packet.values) >= Len(q)]

\* VecDequeEntityProperty::new_read: as many elements as the length says,
\* each EntityProperty::new(mutator_index) assigned the Option read; an
\* error, and no deque, when the packet ends before
vec_deque_new_read(packet, mutator_index) ==
    IF Len(packet.values) < packet.length THEN [q |-> << >>, ok |-> FALSE]
    ELSE [q |-> ElementsAssigned(
                    [i \in 1 .. packet.length |-> PropertyNew(0, mutator_index)],
                    << >>, packet.values, 1).q,
          ok |-> TRUE]

\* ------------------------------------------------ derive(Replicate)
U8Mod == 256   \* "as u8"

\* the types of field the macro takes for replicated properties
FieldTypes == {"Property", "EntityProperty", "VecDequeEntityProperty"}

\* the bits updates are written for: the first and the last of the first
\* byte of the mask, the first of the second
UpdateBits == {0, 7, 8}

\* properties(input): the fields whose type is one of the three, in the
\* order of declaration
properties(fields) == SelectSeq(fields, LAMBDA f : f \in FieldTypes)

\* a mask size of one byte per eight properties begun, plus one
diff_mask_size_plus_one(len) == ((len \div 8) + 1) % U8Mod

\* diff_mask_size of replicate_impl
diff_mask_size(len) ==
    IF len = 0 THEN 0 ELSE (((len - 1) \div 8) + 1) % U8Mod

\* property_enum: the discriminant of the variant of each property
property_enum(props) == [i \in 1 .. Len(props) |-> (i - 1) % U8Mod]

\* new_complete: each property constructed with its variant as u8
new_complete(props, variants) ==
    [i \in 1 .. Len(props) |-> [type |-> props[i], mutator_index |-> variants[i]]]

\* DiffMask::bit on a mask of 8 * size bits, mask the set of bits set
DiffMaskBit(mask, index) == index \in mask

\* write_update: for each property in order, the boolean written before its
\* value
write_update(props, variants, mask) ==
    [i \in 1 .. Len(props) |-> DiffMaskBit(mask, variants[i])]

\* read_apply_update: the properties (by position, from 1) whose read is
\* called, given the booleans of the update
read_apply_update(props, update) ==
    {i \in 1 .. Len(props) : update[i]}

\* ---- the update of a replica on the wire
\* A stream is the sequence of the items written: a boolean is 0 or 1, the
\* value of a Property<T> one item, a length one item, a NetEntity one item.
\* The value of a property is a sequence: the value of a Property<T>, the
\* Option of the handle of an EntityProperty (0 for None), or the Options of
\* the handles of a VecDequeEntityProperty.

\* NetEntityHandleConverter of the writing and of the reading side
handle_to_net_entity(h) == h + 10
net_entity_to_handle(n) == n - 10

\* the values the properties of a replica are drawn from
PropertyValues(type) ==
    CASE type = "Property" -> {<<0>>, <<1>>}
      [] type = "EntityProperty" -> {<<0>>, <<1>>}
      [] type = "VecDequeEntityProperty" -> {<<0>>, <<1>>, <<1, 1>>}

\* the replicas of a struct with the given properties
Replicas(props) ==
    {q \in [1 .. Len(props) -> {<<0>>, <<1>>, <<1, 1>>}] :
        \A i \in 1 .. Len(props) : q[i] \in PropertyValues(props[i])}

\* EntityProperty::write: the Option of the NetEntity of the handle
EntityPropertyWrite(o) ==
    IF o = 0 THEN <<0>> ELSE <<1, handle_to_net_entity(o)>>

RECURSIVE WriteEntities(_)
WriteEntities(q) ==
    IF q = << >> THEN << >>
    ELSE EntityPropertyWrite(Head(q)) \o WriteEntities(Tail(q))

\* write of Property, EntityProperty and VecDequeEntityProperty
PropertyWrite(type, value) ==
    CASE type = "Property" -> <<value[1]>>
      [] type = "EntityProperty" -> EntityPropertyWrite(value[1])
      [] type = "VecDequeEntityProperty" -> <<Len(value)>> \o WriteEntities(value)

\* write_update with the values: for each property whose bit is set, true
\* and the value, for every other property false
RECURSIVE WriteUpdateFrom(_, _, _, _, _)
WriteUpdateFrom(props, variants, s, mask, i) ==
    IF i > Len(props) THEN << >>
    ELSE (IF DiffMaskBit(mask, variants[i])
          THEN <<1>> \o PropertyWrite(props[i], s[i])
          ELSE <<0>>) \o WriteUpdateFrom(props, variants, s, mask, i + 1)

write_update_stream(props, variants, s, mask) ==
    WriteUpdateFrom(props, variants, s, mask, 1)

\* Option::<NetEntity>::de at pos: ok is FALSE when the stream ends (SerdeErr)
EntityDe(st, pos) ==
    IF pos > Len(st) THEN [ok |-> FALSE, pos |-> pos, value |-> 0]
    ELSE IF st[pos] = 0 THEN [ok |-> TRUE, pos |-> pos + 1, value |-> 0]
    ELSE IF pos + 1 > Len(st) THEN [ok |-> FALSE, pos |-> pos + 1, value |-> 0]
    ELSE [ok |-> TRUE, pos |-> pos + 2,
          value |-> net_entity_to_handle(st[pos + 1])]

\* how the reading replica came to its mutators: set_mutator not called,
\* called on the replica as new_complete or new_read built it, called after
\* or before VecDequeEntityProperty::set rebuilt the deques from default
\* elements
MutatorSettings == {"none", "set_mutator", "set, set_mutator", "set_mutator, set"}

\* mutator and mutator_index of each element of each property of replica r
Mutators(props, r, setting) ==
    [i \in 1 .. Len(props) |->
        IF props[i] = "VecDequeEntityProperty"
        THEN [k \in 1 .. Len(r[i]) |->
                [mutator |-> setting \in {"set_mutator", "set, set_mutator"},
                 mutator_index |-> IF setting \in {"none", "set_mutator"}
                                   THEN property_enum(props)[i] ELSE 0]]
        ELSE <<[mutator |-> setting # "none",
                mutator_index |-> property_enum(props)[i]]>>]

\* EntityProperty::read into an element with mutators m: the Option is
\* read, then assigned through deref_mut, which calls the mutator attached
EntityPropertyRead(m, st, pos) ==
    LET e == EntityDe(st, pos)
    IN  [ok |-> e.ok, pos |-> e.pos, value |-> e.value,
         notes |-> IF e.ok /\ m.mutator THEN <<m.mutator_index>> ELSE << >>]

\* the elements of the deque cur read one after the other from the k-th on
RECURSIVE EntitiesRead(_, _, _, _, _, _)
EntitiesRead(st, pos, cur, m, k, notes) ==
    IF k > Len(cur) THEN [ok |-> TRUE, pos |-> pos, value |-> cur, notes |-> notes]
    ELSE LET e == EntityPropertyRead(m[k], st, pos)
         IN  IF ~e.ok THEN [ok |-> FALSE, pos |-> e.pos, value |-> cur,
                            notes |-> notes]
             ELSE EntitiesRead(st, e.pos, [cur EXCEPT ![k] = e.value], m,
                               k + 1, notes \o e.notes)

\* n times EntityProperty::read_write from pos on
RECURSIVE EntitiesReadWrite(_, _, _)
EntitiesReadWrite(st, pos, n) ==
    IF n = 0 THEN [ok |-> TRUE, pos |-> pos]
    ELSE LET e == EntityDe(st, pos)
         IN  IF ~e.ok THEN [ok |-> FALSE, pos |-> e.pos]
             ELSE EntitiesReadWrite(st, e.pos, n - 1)

\* read of Property, EntityProperty and VecDequeEntityProperty into a
\* property whose value is cur and whose elements have the mutators m; the
\* deque refuses a length that is not its own; notes are the calls of the
\* mutator
PropertyRead(type, cur, m, st, pos) ==
    CASE type = "Property" ->
            IF pos > Len(st)
            THEN [ok |-> FALSE, pos |-> pos, value |-> cur, notes |-> << >>]
            ELSE [ok |-> TRUE, pos |-> pos + 1, value |-> <<st[pos]>>,
                  notes |-> << >>]
      [] type = "EntityProperty" ->
            LET e == EntityPropertyRead(m[1], st, pos)
            IN  [ok |-> e.ok, pos |-> e.pos,
                 value |-> IF e.ok THEN <<e.value>> ELSE cur, notes |-> e.notes]
      [] type = "VecDequeEntityProperty" ->
            IF pos > Len(st)
            THEN [ok |-> FALSE, pos |-> pos, value |-> cur, notes |-> << >>]
            ELSE IF st[pos] # Len(cur)
                 THEN [ok |-> FALSE, pos |-> pos + 1, value |-> cur,
                       notes |-> << >>]
            ELSE EntitiesRead(st, pos + 1, cur, m, 1, << >>)

\* read_write: the value at pos is read and written again; pos after it
PropertyReadWrite(type, st, pos) ==
    CASE type = "Property" ->
            IF pos > Len(st) THEN [ok |-> FALSE, pos |-> pos]
            ELSE [ok |-> TRUE, pos |-> pos + 1]
      [] type = "EntityProperty" ->
            [ok |-> EntityDe(st, pos).ok, pos |-> EntityDe(st, pos).pos]
      [] type = "VecDequeEntityProperty" ->
            IF pos > Len(st) THEN [ok |-> FALSE, pos |-> pos]
            ELSE EntitiesReadWrite(st, pos + 1, st[pos])

\* read_create_update: the update is copied, property after property, from
\* the stream of the packet; out is the copy, pos the place reached
RECURSIVE ReadCreateUpdateFrom(_, _, _, _, _)
ReadCreateUpdateFrom(props, st, pos, out, i) ==
    IF i > Len(props) THEN [ok |-> TRUE, pos |-> pos, out |-> out]
    ELSE IF pos > Len(st) THEN [ok |-> FALSE, pos |-> pos, out |-> out]
    ELSE IF st[pos] = 0
         THEN ReadCreateUpdateFrom(props, st, pos + 1, Append(out, 0), i + 1)
    ELSE LET v == PropertyReadWrite(props[i], st, pos + 1)
         IN  IF ~v.ok THEN [ok |-> FALSE, pos |-> v.pos, out |-> out]
             ELSE ReadCreateUpdateFrom(props, st, v.pos,
                      out \o SubSeq(st, pos, v.pos - 1), i + 1)

read_create_update(props, st) == ReadCreateUpdateFrom(props, st, 1, << >>, 1)

\* read_apply_update with the values: each property whose boolean is true
\* reads its value; an error leaves the replica as it is at that point;
\* ms are the mutators of the replica, notes the calls they received
RECURSIVE ReadApplyUpdateFrom(_, _, _, _, _, _, _)
ReadApplyUpdateFrom(props, r, ms, st, pos, i, notes) ==
    IF i > Len(props) THEN [ok |-> TRUE, pos |-> pos, r |-> r, notes |-> notes]
    ELSE IF pos > Len(st) THEN [ok |-> FALSE, pos |-> pos, r |-> r, notes |-> notes]
    ELSE IF st[pos] = 0
         THEN ReadApplyUpdateFrom(props, r, ms, st, pos + 1, i + 1, notes)
    ELSE LET v == PropertyRead(props[i], r[i], ms[i], st, pos + 1)
             r2 == [r EXCEPT ![i] = v.value]
         IN  IF ~v.ok THEN [ok |-> FALSE, pos |-> v.pos, r |-> r2,
                            notes |-> notes \o v.notes]
             ELSE ReadApplyUpdateFrom(props, r2, ms, st, v.pos, i + 1,
                                      notes \o v.notes)

read_apply_update_stream(props, r, ms, st) ==
    ReadApplyUpdateFrom(props, r, ms, st, 1, 1, << >>)

\* no update was sent yet
NoTrip ==
    [done |-> FALSE, s |-> << >>, r |-> << >>, mask |-> {}, bytes |-> << >>,
     setting |-> "none",
     created |-> [ok |-> TRUE, pos |-> 1, out |-> << >>],
     applied |-> [ok |-> TRUE, pos |-> 1, r |-> << >>, notes |-> << >>]]

\* the update of replica s under mask written, copied by read_create_update
\* and applied by read_apply_update to replica r, whose mutators are as the
\* setting says
update_round_trip(props, s, r, mask, setting) ==
    LET bytes == write_update_stream(props, property_enum(props), s, mask)
        created == read_create_update(props, bytes)
    IN  [done |-> TRUE, s |-> s, r |-> r, mask |-> mask, bytes |-> bytes,
         setting |-> setting,
         created |-> created,
         applied |-> IF created.ok
                     THEN read_apply_update_stream(props, r,
                              Mutators(props, r, setting), created.out)
                     ELSE [ok |-> FALSE, pos |-> 1, r |-> r, notes |-> << >>]]

\* replicate_impl for a struct with the given fields
replicate_impl(fields) ==
    LET props == properties(fields)
        variants == property_enum(props)
    IN  [fields |-> fields,
         diff_mask_size |-> diff_mask_size(Len(props)),
         replica |-> new_complete(props, variants),
         mask |-> {}, update |-> << >>, applied |-> {}, trip |-> NoTrip]

\* ------------------------------------------------- the client's handshake
Timestamps == {1, 2}
Digests == {1, 2}
Ticks == {0, 1}

\* the fields of Client the handshake uses; an Option is << >> or <<value>>;
\* initial_tick is what the tick manager was seeded with
ClientNew ==
    [ connection_replicate     |-> "AwaitingChallengeResponse",
      pre_connection_timestamp |-> << >>,
      pre_connection_digest    |-> << >>,
      server_connection        |-> FALSE,
      initial_tick             |-> << >>,
      panicked                 |-> FALSE ]

\* the handshake request the client sends when its timer rings
HandshakeRequest(c) ==
    CASE c.server_connection -> << >>
      [] c.connection_replicate = "AwaitingChallengeResponse" ->
            <<[type |-> "ClientChallengeRequest",
               timestamp |-> c.pre_connection_timestamp, digest |-> << >>]>>
      [] c.connection_replicate = "AwaitingConnectResponse" ->
            <<[type |-> "ClientConnectRequest",
               timestamp |-> c.pre_connection_timestamp,
               digest |-> c.pre_connection_digest]>>
      [] OTHER -> << >>

\* taking a new timestamp on every ring
handshake_send_restamping(c, now) ==
    IF ~c.server_connection
       /\ c.connection_replicate = "AwaitingChallengeResponse"
    THEN [c EXCEPT !.pre_connection_timestamp = <<now>>]
    ELSE c

\* the timer branch of receive(): the timestamp is taken on the first request
handshake_send(c, now) ==
    IF ~c.server_connection
       /\ c.connection_replicate = "AwaitingChallengeResponse"
       /\ c.pre_connection_timestamp = << >>
    THEN [c EXCEPT !.pre_connection_timestamp = <<now>>]
    ELSE c

\* accepting every challenge response, whatever timestamp it echoes
receive_challenge_response_any(c, server_tick, payload_timestamp, digest) ==
    IF ~c.server_connection
       /\ c.connection_replicate = "AwaitingChallengeResponse"
       /\ c.pre_connection_timestamp # << >>
    THEN [c EXCEPT !.pre_connection_digest = <<digest>>,
                   !.initial_tick = <<server_tick>>,
                   !.connection_replicate = "AwaitingConnectResponse"]
    ELSE c

\* accepting the challenge response without storing its digest
receive_challenge_response_no_digest(c, server_tick, payload_timestamp, digest) ==
    IF ~c.server_connection
       /\ c.connection_replicate = "AwaitingChallengeResponse"
       /\ c.pre_connection_timestamp # << >>
       /\ c.pre_connection_timestamp[1] = payload_timestamp
    THEN [c EXCEPT !.initial_tick = <<server_tick>>,
                   !.connection_replicate = "AwaitingConnectResponse"]
    ELSE c

\* receive() on a ServerChallengeResponse packet
receive_challenge_response(c, server_tick, payload_timestamp, digest) ==
    IF ~c.server_connection
       /\ c.connection_replicate = "AwaitingChallengeResponse"
       /\ c.pre_connection_timestamp # << >>
       /\ c.pre_connection_timestamp[1] = payload_timestamp
    THEN [c EXCEPT !.pre_connection_digest = <<digest>>,
                   !.initial_tick = <<server_tick>>,
                   !.connection_replicate = "AwaitingConnectResponse"]
    ELSE c

\* receive() on a ServerChallengeResponse packet whose payload has only len
\* bytes, fewer than the two of the server tick: read_u16 fails and the
\* result is unwrapped
ShortLengths == {0, 1}
receive_short_challenge_response(c, len) ==
    IF ~c.server_connection
       /\ c.connection_replicate = "AwaitingChallengeResponse"
       /\ c.pre_connection_timestamp # << >>
       /\ len < 2
    THEN [c EXCEPT !.panicked = TRUE]
    ELSE c

\* receive() on a ServerConnectResponse packet
receive_connect_response(c) ==
    IF ~c.server_connection
    THEN [c EXCEPT !.server_connection = TRUE,
                   !.connection_replicate = "Connected"]
    ELSE c

\* dropping the connection while keeping the handshake fields
drop_connection_keeping_handshake(c) ==
    [c EXCEPT !.server_connection = FALSE,
              !.connection_replicate = "AwaitingChallengeResponse"]

\* dropping the connection while the state stays what it was
drop_connection_keeping_state(c) ==
    [c EXCEPT !.server_connection = FALSE,
              !.pre_connection_timestamp = << >>,
              !.pre_connection_digest = << >>]

\* receive() when the connection timed out
drop_connection(c) ==
    [c EXCEPT !.server_connection = FALSE,
              !.pre_connection_timestamp = << >>,
              !.pre_connection_digest = << >>,
              !.connection_replicate = "AwaitingChallengeResponse"]

\* The ServerConnection as receive() uses it: the time since a packet was
\* last sent (heartbeat_timer), last heard (timeout_timer), since the last
\* ping (ping_timer), and the number of queued outgoing messages.
ServerConnectionNew ==
    [heartbeat_timer |-> 0, timeout_timer |-> 0, ping_timer |-> 0, outgoing |-> 0]

should_drop(l) == l.timeout_timer >= DisconnectionTimeout
should_send_heartbeat(l) == l.heartbeat_timer >= HeartbeatInterval
should_send_ping(l) == l.ping_timer >= PingInterval
mark_sent(l) == [l EXCEPT !.heartbeat_timer = 0]
mark_heard(l) == [l EXCEPT !.timeout_timer = 0, !.heartbeat_timer = 0]
get_ping_payload(l) == [l EXCEPT !.ping_timer = 0]

\* sending the Heartbeat without marking the connection as having sent
connected_send_unmarked(l) ==
    LET hb   == should_send_heartbeat(l)
        ping == should_send_ping(l)
        l2   == IF ping THEN mark_sent(get_ping_payload(l)) ELSE l
        data == l2.outgoing > 0
        l3   == IF data THEN mark_sent([l2 EXCEPT !.outgoing = 0]) ELSE l2
    IN  [l |-> l3,
         sent |-> (IF hb THEN {"Heartbeat"} ELSE {}) \cup
                  (IF ping THEN {"Ping"} ELSE {}) \cup
                  (IF data THEN {"Data"} ELSE {})]

\* the connected branch of receive() when the connection is kept: the
\* connection after it and the packets sent
connected_send(l) ==
    LET hb   == should_send_heartbeat(l)
        l1   == IF hb THEN mark_sent(l) ELSE l
        ping == should_send_ping(l1)
        l2   == IF ping THEN mark_sent(get_ping_payload(l1)) ELSE l1
        data == l2.outgoing > 0
        l3   == IF data THEN mark_sent([l2 EXCEPT !.outgoing = 0]) ELSE l2
    IN  [l |-> l3,
         sent |-> (IF hb THEN {"Heartbeat"} ELSE {}) \cup
                  (IF ping THEN {"Ping"} ELSE {}) \cup
                  (IF data THEN {"Data"} ELSE {})]

\* ------------------------------------------------------------- the manager
ReplicateManagerNew ==
    [ replicate_key_generator        |-> KeyGeneratorNew,
      replicate_records              |-> [k \in Keys |-> NoRecord],
      delayed_replicate_deletions    |-> {},
      pawn_object_store              |-> {},
      entity_key_generator           |-> KeyGeneratorNew,
      local_entity_store             |-> [e \in EntKeys |-> NoEntity],
      pawn_entity_store              |-> {},
      delayed_entity_deletions       |-> {},
      queued_messages                |-> << >>,
      sent_messages                  |-> EmptyMap,
      sent_updates                   |-> EmptyMap,
      last_update_packet_index       |-> 0,
      last_last_update_packet_index  |-> 0,
      last_popped_diff_mask          |-> << >>,
      last_popped_diff_mask_list     |-> << >>,
      enqueued                       |-> 0,
      panicked                       |-> FALSE ]

Panic(s) == [s EXCEPT !.panicked = TRUE]

HasRecord(s, k) == s.replicate_records[k].status # "None"
HasEntityRecord(s, e) == s.local_entity_store[e].status # "None"

\* push_back of a reliable action; the history counter ranks first enqueues
PushReliable(s, a) ==
    [s EXCEPT !.queued_messages = Append(@, [a EXCEPT !.id = s.enqueued + 1]),
              !.enqueued = @ + 1]

\* MutHandler: the mask registered for (this connection, key) is the record's
MutHandlerClear(s, k) ==
    IF HasRecord(s, k) THEN [s EXCEPT !.replicate_records[k].diff_mask = {}] ELSE s
MutHandlerSet(s, k, mask) ==
    IF HasRecord(s, k)
    THEN [s EXCEPT !.replicate_records[k].diff_mask = DiffMaskOr(@, mask)]
    ELSE s
MutHandlerMutate(s, k, b) ==
    IF HasRecord(s, k)
    THEN [s EXCEPT !.replicate_records[k].diff_mask = DiffMaskOr(@, {b})]
    ELSE s

has_outgoing_actions(s) == Len(s.queued_messages) # 0
has_object(s, k) == HasRecord(s, k)
has_pawn(s, k) == k \in s.pawn_object_store
has_entity(s, e) == HasEntityRecord(s, e)
has_pawn_entity(s, e) == e \in s.pawn_entity_store

replicate_init(s, key, status) ==
    IF ~HasRecord(s, key)
    THEN LET g == KeyGenerate(s.replicate_key_generator)
         IN  [s EXCEPT !.replicate_key_generator = g.gen,
                       !.replicate_records[key] =
                            ReplicateRecordNew(g.key, status, s.enqueued)]
    ELSE Panic(s)

replicate_delete(s, key) ==
    PushReliable([s EXCEPT !.replicate_records[key].status = "Deleting"],
                 Action("DeleteReplicate", key, s.replicate_records[key].local_key))

entity_delete(s, key) ==
    PushReliable([s EXCEPT !.local_entity_store[key].status = "Deleting"],
                 Action("DeleteEntity", key, s.local_entity_store[key].local_key))

add_object(s, key) ==
    LET s1 == replicate_init(s, key, "Creating")
    IN  IF s1.panicked THEN s1
        ELSE PushReliable(s1, Action("CreateObject", key,
                                     s1.replicate_records[key].local_key))

add_pawn(s, key) ==
    IF HasRecord(s, key)
    THEN IF key \notin s.pawn_object_store
         THEN PushReliable([s EXCEPT !.pawn_object_store = @ \cup {key}],
                           Action("AssignPawn", key, s.replicate_records[key].local_key))
         ELSE s
    ELSE Panic(s)

remove_pawn(s, key) ==
    IF key \in s.pawn_object_store
    THEN LET s1 == [s EXCEPT !.pawn_object_store = @ \ {key}]
         IN  IF HasRecord(s1, key)
             THEN PushReliable(s1, Action("UnassignPawn", key,
                                          s1.replicate_records[key].local_key))
             ELSE s1
    ELSE Panic(s)

remove_object(s, key) ==
    LET s1 == IF has_pawn(s, key) THEN remove_pawn(s, key) ELSE s
    IN  IF s1.panicked THEN s1
        ELSE IF HasRecord(s1, key)
        THEN CASE s1.replicate_records[key].status = "Creating" ->
                    [s1 EXCEPT !.delayed_replicate_deletions = @ \cup {key}]
               [] s1.replicate_records[key].status = "Created" ->
                    replicate_delete(s1, key)
               [] OTHER -> s1
        ELSE Panic(s1)

\* add_entity(global_key, components_ref, component_list): the records are
\* installed for the entries of the list, in the order of the list; the
\* entity record keeps the handle of the set (components: its contents)
RECURSIVE InitComponents(_, _)
InitComponents(s, list) ==
    IF list = << >> \/ s.panicked THEN s
    ELSE InitComponents(replicate_init(s, Head(list), "Creating"), Tail(list))

add_entity(s, global_key, components_ref, component_list) ==
    IF ~HasEntityRecord(s, global_key)
    THEN LET s1 == InitComponents(s, component_list)
             g  == KeyGenerate(s1.entity_key_generator)
         IN  IF s1.panicked THEN s1
             ELSE PushReliable(
                    [s1 EXCEPT !.entity_key_generator = g.gen,
                               !.local_entity_store[global_key] =
                                    EntityRecordNew(g.key, components_ref, s.enqueued)],
                    Action("CreateEntity", global_key, g.key))
    ELSE Panic(s)

remove_pawn_entity(s, key) ==
    IF key \in s.pawn_entity_store
    THEN IF HasEntityRecord(s, key)
         THEN PushReliable([s EXCEPT !.pawn_entity_store = @ \ {key}],
                           Action("UnassignPawnEntity", key,
                                  s.local_entity_store[key].local_key))
         ELSE Panic(s)
    ELSE Panic(s)

add_pawn_entity(s, key) ==
    IF HasEntityRecord(s, key) /\ key \notin s.pawn_entity_store
    THEN PushReliable([s EXCEPT !.pawn_entity_store = @ \cup {key}],
                      Action("AssignPawnEntity", key, s.local_entity_store[key].local_key))
    ELSE s

\* the cascade of remove_entity on a Created entity: every component of the
\* set loses its pawn designation and its record becomes Deleting
MarkComponentsDeleting(s, comps) ==
    [s EXCEPT !.pawn_object_store = @ \ comps,
              !.replicate_records =
                  [k \in Keys |-> IF k \in comps /\ @[k].status # "None"
                                  THEN [@[k] EXCEPT !.status = "Deleting"]
                                  ELSE @[k]]]

remove_entity(s, key) ==
    LET s1 == IF has_pawn_entity(s, key) THEN remove_pawn_entity(s, key) ELSE s
    IN  IF s1.panicked THEN s1
        ELSE IF HasEntityRecord(s1, key)
        THEN CASE s1.local_entity_store[key].status = "Creating" ->
                    [s1 EXCEPT !.delayed_entity_deletions = @ \cup {key}]
               [] s1.local_entity_store[key].status = "Created" ->
                    MarkComponentsDeleting(entity_delete(s1, key),
                                           s1.local_entity_store[key].components)
               [] OTHER -> s1
        ELSE s1

\* the application writes the component set it shares with the entity
\* record of this connection
components_insert(s, entity_key, component_key) ==
    IF HasEntityRecord(s, entity_key)
    THEN [s EXCEPT !.local_entity_store[entity_key].components = @ \cup {component_key}]
    ELSE s

components_remove(s, entity_key, component_key) ==
    IF HasEntityRecord(s, entity_key)
    THEN [s EXCEPT !.local_entity_store[entity_key].components = @ \ {component_key}]
    ELSE s

\* add_component(entity_key, component_key, component_ref): the shared
\* component set is not written here
add_component(s, entity_key, component_key) ==
    IF ~HasEntityRecord(s, entity_key) THEN Panic(s)
    ELSE LET s1 == replicate_init(s, component_key, "Creating")
             er == s1.local_entity_store[entity_key]
         IN  IF s1.panicked THEN s1
             ELSE IF er.status = "Created"
                  THEN PushReliable(s1,
                         [Action("AddComponent", component_key,
                                 s1.replicate_records[component_key].local_key)
                            EXCEPT !.ek = er.local_key])
                  ELSE s1

\* collect_replicate_updates: the records are visited in the order the
\* iterator of replicate_records yields their keys; the action holds the
\* handle of the record's mask, not a copy
RECURSIVE CollectFrom(_, _)
CollectFrom(s, keys) ==
    IF keys = << >> THEN s
    ELSE LET key == Head(keys)
             rec == s.replicate_records[key]
             t   == IF key \in s.pawn_object_store THEN "UpdatePawn"
                    ELSE "UpdateReplicate"
         IN  IF rec.status = "Created" /\ ~DiffMaskIsClear(rec.diff_mask)
             THEN CollectFrom(
                    [s EXCEPT !.queued_messages =
                        Append(@, [Action(t, key, rec.local_key) EXCEPT !.live = TRUE])],
                    Tail(keys))
             ELSE CollectFrom(s, Tail(keys))

RecordKeys(s) == {k \in Keys : HasRecord(s, k)}

\* order: the keys of replicate_records as its iterator yields them
collect_replicate_updates(s, order) == CollectFrom(s, InOrder(order, RecordKeys(s)))

\* the mask an update action holds: the record's mask while the handle is
\* shared with a record, the retained copy after the record was cleaned up
ActionMask(s, a) == IF a.live THEN s.replicate_records[a.k].diff_mask ELSE a.m

pop_create_replicate_diff_mask(s, global_key) ==
    LET s1 == IF HasRecord(s, global_key)
              THEN [s EXCEPT !.last_popped_diff_mask =
                                <<s.replicate_records[global_key].diff_mask>>]
              ELSE s
    IN  MutHandlerClear(s1, global_key)

unpop_create_replicate_diff_mask(s, global_key) ==
    IF s.last_popped_diff_mask # << >>
    THEN MutHandlerSet(s, global_key, s.last_popped_diff_mask[1])
    ELSE s

\* process_replicate_update without its call of clear_replicate
process_replicate_update_not_clearing(s, packet_index, global_key, diff_mask) ==
    LET s1 == IF packet_index \notin DOMAIN s.sent_updates
              THEN [s EXCEPT !.sent_updates = MapPut(@, packet_index, EmptyMap),
                             !.last_last_update_packet_index = s.last_update_packet_index,
                             !.last_update_packet_index = packet_index]
              ELSE s
    IN  [s1 EXCEPT !.sent_updates[packet_index] = MapPut(@, global_key, diff_mask),
                   !.last_popped_diff_mask = <<diff_mask>>]

process_replicate_update(s, packet_index, global_key, diff_mask) ==
    LET s1 == IF packet_index \notin DOMAIN s.sent_updates
              THEN [s EXCEPT !.sent_updates = MapPut(@, packet_index, EmptyMap),
                             !.last_last_update_packet_index = s.last_update_packet_index,
                             !.last_update_packet_index = packet_index]
              ELSE s
        s2 == [s1 EXCEPT !.sent_updates[packet_index] = MapPut(@, global_key, diff_mask),
                         !.last_popped_diff_mask = <<diff_mask>>]
    IN  MutHandlerClear(s2, global_key)

undo_replicate_update(s, packet_index, global_key) ==
    LET s1 == IF packet_index \in DOMAIN s.sent_updates
              THEN LET map == MapRemove(s.sent_updates[packet_index], global_key)
                   IN  IF DOMAIN map = {}
                       THEN [s EXCEPT !.sent_updates = MapRemove(@, packet_index)]
                       ELSE [s EXCEPT !.sent_updates[packet_index] = map]
              ELSE s
        s2 == [s1 EXCEPT !.last_update_packet_index = s.last_last_update_packet_index]
        s3 == IF s2.last_popped_diff_mask # << >>
              THEN MutHandlerSet(s2, global_key, s2.last_popped_diff_mask[1])
              ELSE s2
    IN  IF HasRecord(s3, global_key) THEN s3 ELSE Panic(s3)

\* the component list pop_outgoing_action substitutes into a CreateEntity;
\* order: the component set of the entity as its iterator yields it
ComponentList(s, e, order) ==
    LET ks == InOrder(order, s.local_entity_store[e].components)
    IN  [i \in 1 .. Len(ks) |-> <<ks[i], s.replicate_records[ks[i]].local_key>>]

RECURSIVE ClearComponents(_, _)
ClearComponents(s, list) ==
    IF list = << >> THEN s
    ELSE ClearComponents(MutHandlerClear(s, Head(list)[1]), Tail(list))

\* the message pop_outgoing_action records in sent_messages
PoppedMessage(s, order) ==
    LET message == Head(s.queued_messages)
    IN  IF message.t = "CreateEntity"
        THEN [message EXCEPT !.cl = <<ComponentList(s, message.k, order)>>]
        ELSE message

\* the action pop_outgoing_action returns (an update carries the locked copy)
PoppedAction(s, order) ==
    LET message == PoppedMessage(s, order)
    IN  IF message.t \in UpdateTypes
        THEN [message EXCEPT !.live = FALSE, !.m = ActionMask(s, message)]
        ELSE message

PopPanics(s) ==
    LET message == Head(s.queued_messages)
    IN  /\ message.t = "CreateEntity"
        /\ \/ ~HasEntityRecord(s, message.k)
           \/ \E c \in s.local_entity_store[message.k].components : ~HasRecord(s, c)

\* the component set the pop of the head of the queue iterates
PopIterated(s) ==
    IF /\ s.queued_messages # << >>
       /\ Head(s.queued_messages).t = "CreateEntity"
       /\ HasEntityRecord(s, Head(s.queued_messages).k)
    THEN s.local_entity_store[Head(s.queued_messages).k].components
    ELSE {}

pop_outgoing_action(s, packet_index, order) ==
    IF s.queued_messages = << >> THEN s
    ELSE IF PopPanics(s) THEN Panic(s)
    ELSE
    LET message == PoppedMessage(s, order)
        list == IF packet_index \in DOMAIN s.sent_messages
                THEN s.sent_messages[packet_index] ELSE << >>
        s1 == [s EXCEPT !.queued_messages = Tail(@),
                        !.sent_messages = MapPut(@, packet_index, Append(list, message))]
    IN  CASE message.t \in {"CreateObject", "AddComponent"} ->
                pop_create_replicate_diff_mask(s1, message.k)
          [] message.t = "CreateEntity" ->
                LET cl == message.cl[1]
                    masks == [i \in 1 .. Len(cl) |->
                                <<cl[i][1], s1.replicate_records[cl[i][1]].diff_mask>>]
                IN  [ClearComponents(s1, cl) EXCEPT !.last_popped_diff_mask_list = <<masks>>]
          [] message.t \in UpdateTypes ->
                process_replicate_update(s1, packet_index, message.k, ActionMask(s, message))
          [] OTHER -> s1

RECURSIVE SetComponents(_, _)
SetComponents(s, masks) ==
    IF masks = << >> THEN s
    ELSE SetComponents(MutHandlerSet(s, Head(masks)[1], Head(masks)[2]), Tail(masks))

unpop_outgoing_action(s, packet_index, message) ==
    LET s1 == IF packet_index \in DOMAIN s.sent_messages
              THEN LET list == Front(s.sent_messages[packet_index])
                   IN  IF Len(list) = 0
                       THEN [s EXCEPT !.sent_messages = MapRemove(@, packet_index)]
                       ELSE [s EXCEPT !.sent_messages[packet_index] = list]
              ELSE s
    IN  CASE message.t \in {"CreateObject", "AddComponent"} ->
                LET s2 == unpop_create_replicate_diff_mask(s1, message.k)
                IN  [s2 EXCEPT !.queued_messages = <<message>> \o @]
          [] message.t = "CreateEntity" ->
                LET s2 == IF s1.last_popped_diff_mask_list # << >>
                          THEN SetComponents(s1, s1.last_popped_diff_mask_list[1])
                          ELSE s1
                IN  [s2 EXCEPT !.queued_messages = <<message>> \o @]
          [] message.t \in UpdateTypes ->
                LET s2 == undo_replicate_update(s1, packet_index, message.k)
                IN  IF s2.panicked THEN s2
                    ELSE [s2 EXCEPT !.queued_messages =
                            <<[message EXCEPT !.live = TRUE, !.m = {}]>> \o @]
          [] OTHER -> [s1 EXCEPT !.queued_messages = <<message>> \o @]

\* replicate_cleanup: the record, its value, its mask registration and its
\* pawn designation go, the local key is recycled.  Update actions still
\* queued keep the handle of the mask, which now nobody else holds: from here
\* on it is a value of its own.
replicate_cleanup(s, global_object_key) ==
    IF HasRecord(s, global_object_key)
    THEN LET rec == s.replicate_records[global_object_key]
         IN  [s EXCEPT
                !.replicate_records[global_object_key] = NoRecord,
                !.replicate_key_generator = KeyRecycle(@, rec.local_key),
                !.pawn_object_store = @ \ {global_object_key},
                !.queued_messages =
                    [i \in 1 .. Len(@) |->
                        IF @[i].k = global_object_key /\ @[i].t \in UpdateTypes /\ @[i].live
                        THEN [@[i] EXCEPT !.live = FALSE, !.m = rec.diff_mask]
                        ELSE @[i]]]
    ELSE s

RECURSIVE CleanupAll(_, _)
CleanupAll(s, deleted) ==
    IF deleted = << >> THEN s
    ELSE CleanupAll(replicate_cleanup(s, Head(deleted)), Tail(deleted))

RECURSIVE PromoteComponents(_, _)
PromoteComponents(s, cl) ==
    IF cl = << >> \/ s.panicked THEN s
    ELSE LET c == Last(cl)[1]
         IN  PromoteComponents(
                IF HasRecord(s, c)
                THEN [s EXCEPT !.replicate_records[c].status = "Created"]
                ELSE Panic(s),
                Front(cl))

RECURSIVE AddCreatingComponents(_, _, _)
AddCreatingComponents(s, e, comps) ==
    IF comps = << >> \/ s.panicked THEN s
    ELSE LET c == Head(comps)
             rec == s.replicate_records[c]
         IN  AddCreatingComponents(
                IF rec.status = "None" THEN Panic(s)
                ELSE IF rec.status = "Creating"
                THEN PushReliable(s, [Action("AddComponent", c, rec.local_key)
                                        EXCEPT !.ek = s.local_entity_store[e].local_key])
                ELSE s,
                e, Tail(comps))

\* one arm of the match in notify_packet_delivered; st is the manager, del
\* the list deleted_replicates, order the component sets of the entities as
\* their iterators yield them
DeliveredMessage(r, packet_index, a, order) ==
    LET s == r.st
    IN  CASE a.t \in {"CreateObject", "AddComponent"} ->
                IF ~HasRecord(s, a.k) THEN [r EXCEPT !.st = Panic(s)]
                ELSE IF a.k \in s.delayed_replicate_deletions
                THEN [r EXCEPT !.st = replicate_delete(
                        [s EXCEPT !.delayed_replicate_deletions = @ \ {a.k}], a.k)]
                ELSE [r EXCEPT !.st.replicate_records[a.k].status = "Created"]
          [] a.t = "DeleteReplicate" ->
                [r EXCEPT !.del = Append(@, a.k)]
          [] a.t \in UpdateTypes ->
                [r EXCEPT !.st.sent_updates = MapRemove(@, packet_index)]
          [] a.t = "CreateEntity" ->
                IF ~HasEntityRecord(s, a.k) THEN [r EXCEPT !.st = Panic(s)]
                ELSE IF a.k \in s.delayed_entity_deletions
                THEN [r EXCEPT !.st = entity_delete(
                        [s EXCEPT !.delayed_entity_deletions = @ \ {a.k}], a.k)]
                ELSE LET s1 == [s EXCEPT !.local_entity_store[a.k].status = "Created"]
                         s2 == IF a.cl # << >> THEN PromoteComponents(s1, a.cl[1]) ELSE s1
                     IN  [r EXCEPT !.st = AddCreatingComponents(s2, a.k,
                                InOrder(order, s2.local_entity_store[a.k].components))]
          [] a.t = "DeleteEntity" ->
                IF ~HasEntityRecord(s, a.k) THEN [r EXCEPT !.st = Panic(s)]
                ELSE [r EXCEPT
                        !.st.local_entity_store[a.k] = NoEntity,
                        !.st.entity_key_generator = KeyRecycle(@, a.lk),
                        !.st.pawn_entity_store = @ \ {a.k},
                        !.del = @ \o InOrder(order, s.local_entity_store[a.k].components)]
          [] OTHER -> r

RECURSIVE DeliveredAll(_, _, _, _)
DeliveredAll(r, packet_index, list, order) ==
    IF list = << >> \/ r.st.panicked THEN r
    ELSE DeliveredAll(DeliveredMessage(r, packet_index, Head(list), order),
                      packet_index, Tail(list), order)

\* the component sets the delivery of packet_index iterates
DeliveryIterated(s, packet_index) ==
    IF packet_index \in DOMAIN s.sent_messages
    THEN UNION {s.local_entity_store[a.k].components :
                    a \in {m \in ElementsOf(s.sent_messages[packet_index]) :
                              m.t \in {"CreateEntity", "DeleteEntity"}}}
    ELSE {}

\* notify_packet_delivered reading the list of the packet without removing it
notify_packet_delivered_keeping_list(s, packet_index, order) ==
    IF packet_index \in DOMAIN s.sent_messages
    THEN LET r == DeliveredAll([st |-> s, del |-> << >>],
                    packet_index, s.sent_messages[packet_index], order)
         IN  IF r.st.panicked THEN r.st ELSE CleanupAll(r.st, r.del)
    ELSE s

notify_packet_delivered(s, packet_index, order) ==
    IF packet_index \in DOMAIN s.sent_messages
    THEN LET r == DeliveredAll(
                    [st |-> [s EXCEPT !.sent_messages = MapRemove(@, packet_index)],
                     del |-> << >>],
                    packet_index, s.sent_messages[packet_index], order)
         IN  IF r.st.panicked THEN r.st ELSE CleanupAll(r.st, r.del)
    ELSE s

\* a walk that visits no packet
WalkedPacketsNone(s, dropped_packet_index) == {}

\* the packets the walk of notify_packet_dropped visits: dropped+1, dropped+2,
\* ... (wrapping) up to but excluding last_update_packet_index
WalkedPackets(s, dropped_packet_index) ==
    LET d == (s.last_update_packet_index - dropped_packet_index) % PacketMod
    IN  {p \in DOMAIN s.sent_updates :
            /\ p # dropped_packet_index
            /\ ((p - dropped_packet_index) % PacketMod) < d}

RECURSIVE NandAll(_, _, _, _)
NandAll(s, mask, global_key, packets) ==
    IF packets = {} THEN mask
    ELSE LET p == CHOOSE q \in packets : TRUE
         IN  NandAll(s,
                     IF global_key \in DOMAIN s.sent_updates[p]
                     THEN DiffMaskNand(mask, s.sent_updates[p][global_key])
                     ELSE mask,
                     global_key, packets \ {p})

\* the match of notify_packet_dropped with an empty arm for the guaranteed
\* actions
DroppedMessageForgetting(s, dropped_packet_index, a) ==
    IF a.t \in ReliableTypes
    THEN s
    ELSE IF /\ dropped_packet_index \in DOMAIN s.sent_updates
            /\ a.k \in DOMAIN s.sent_updates[dropped_packet_index]
         THEN LET new_diff_mask ==
                    NandAll(s, s.sent_updates[dropped_packet_index][a.k], a.k,
                            WalkedPackets(s, dropped_packet_index))
              IN  IF HasRecord(s, a.k)
                  THEN [s EXCEPT !.replicate_records[a.k].diff_mask =
                                    DiffMaskOr(@, new_diff_mask)]
                  ELSE s
         ELSE s

\* one arm of the match in notify_packet_dropped
DroppedMessage(s, dropped_packet_index, a) ==
    IF a.t \in ReliableTypes
    THEN [s EXCEPT !.queued_messages = Append(@, a)]
    ELSE IF /\ dropped_packet_index \in DOMAIN s.sent_updates
            /\ a.k \in DOMAIN s.sent_updates[dropped_packet_index]
         THEN LET new_diff_mask ==
                    NandAll(s, s.sent_updates[dropped_packet_index][a.k], a.k,
                            WalkedPackets(s, dropped_packet_index))
              IN  IF HasRecord(s, a.k)
                  THEN [s EXCEPT !.replicate_records[a.k].diff_mask =
                                    DiffMaskOr(@, new_diff_mask)]
                  ELSE s
         ELSE s

RECURSIVE DroppedAll(_, _, _)
DroppedAll(s, dropped_packet_index, list) ==
    IF list = << >> THEN s
    ELSE DroppedAll(DroppedMessage(s, dropped_packet_index, Head(list)),
                    dropped_packet_index, Tail(list))

\* notify_packet_dropped without its last statement: the dropped packet's
\* list of actions stays in sent_messages
notify_packet_dropped_keeping_list(s, dropped_packet_index) ==
    IF dropped_packet_index \in DOMAIN s.sent_messages
    THEN LET s1 == DroppedAll(s, dropped_packet_index, s.sent_messages[dropped_packet_index])
         IN  [s1 EXCEPT !.sent_updates = MapRemove(@, dropped_packet_index)]
    ELSE s

notify_packet_dropped(s, dropped_packet_index) ==
    IF dropped_packet_index \in DOMAIN s.sent_messages
    THEN LET s1 == DroppedAll(s, dropped_packet_index, s.sent_messages[dropped_packet_index])
         IN  [s1 EXCEPT !.sent_updates = MapRemove(@, dropped_packet_index),
                        !.sent_messages = MapRemove(@, dropped_packet_index)]
    ELSE s

\* ========================================================================
\* The connection around the manager.  The server is single threaded: the
\* application calls the public operations; the packet writer, in one go,
\* pops actions into the packet `cur`, takes the last one back when it does
\* not fit, and the packet is sent; the ack tracker notifies delivery or loss
\* of each sent packet once, in ascending order of packet index.
\* ========================================================================
VARIABLES
    mgr,        \* the ReplicateManager
    cur,        \* index of the packet being written
    ack,        \* index of the oldest packet not yet notified
    writer,     \* "idle", "writing" (actions are being popped into cur) or
                \* "full" (the last action did not fit and was taken back)
    lastPop,    \* << >>, or <<r>>: r.a is the action the last step popped
    calls,      \* number of application calls so far
    drops,      \* number of packets lost so far
    pending,    \* history: per key, the bits mutated and not yet delivered
    carried,    \* history: per packet and key, the bits whose current value
                \* the packet carries
    clientLog,  \* history: the reliable actions delivered, in delivery order
    pw,         \* the PacketWriter of the packet being filled
    pwLog,      \* history: the actions written into it, the last return value, a panic
    client,     \* the Client (its handshake fields)
    link,       \* the ServerConnection of the client while it has one
    hs,         \* history: handshake requests sent, the last one, what
                \* became of the last ServerChallengeResponse, the event the
                \* last step of receive() returned, the packets it sent, the
                \* Disconnection events of the latest connection, the time
                \* since the last Heartbeat
    cw,         \* the client's PacketWriter (its command section)
    rp,         \* a struct deriving Replicate: its fields, what the macro
                \* generated for them, the last update written and applied
    pr,         \* a Property: inner, mutator, mutator_index; the value its
                \* caller read last and the operation applied last
    notes,      \* the calls of PropertyMutator::mutate, in order: the
                \* indices they were given
    sock,       \* the WebRTC socket of the server: its io, the hand-over of
                \* the async sender, the two channels of payloads
    cmds,       \* the command history of the pawn, oldest first, and the
                \* last write_command: its host tick, the history it saw,
                \* what it returned and serialized
    packets     \* history: per packet index, the number of actions written
                \* into it (taken-back actions not counted), its fate, and
                \* the update masks it held and the latest update packet
                \* when it was dropped

connVars == <<mgr, cur, ack, writer, lastPop, calls, drops, pending, carried,
              clientLog, packets>>
writerVars == <<pw, pwLog>>
clientVars == <<client, link, hs>>
commandVars == <<cw, cmds>>
socketVars == <<sock>>
propertyVars == <<pr, notes>>
deriveVars == <<rp>>
restVars == <<commandVars, socketVars, propertyVars, deriveVars>>
notCommand == <<connVars, writerVars, clientVars, socketVars, propertyVars, deriveVars>>
notSocket == <<connVars, writerVars, clientVars, commandVars, propertyVars, deriveVars>>
notProperty == <<connVars, writerVars, clientVars, commandVars, socketVars, deriveVars>>
notDerive == <<connVars, writerVars, clientVars, commandVars, socketVars, propertyVars>>
vars == <<connVars, writerVars, clientVars, restVars>>

NoBits == [k \in Keys |-> {}]

Init ==
    /\ mgr = ReplicateManagerNew
    /\ cur = 0
    /\ ack = 0
    /\ writer = "idle"
    /\ lastPop = << >>
    /\ calls = 0
    /\ drops = 0
    /\ pending = NoBits
    /\ carried = [p \in Packets |-> NoBits]
    /\ clientLog = << >>
    /\ packets = [p \in Packets |-> [written |-> 0, fate |-> "open", lost |-> NoBits, latest |-> 0]]
    /\ pw = PacketWriterNew
    /\ pwLog = [written |-> 0, ok |-> "none", panicked |-> FALSE]
    /\ client = ClientNew
    /\ link = ServerConnectionNew
    /\ cw = CommandWriterNew
    /\ sock = SocketNew(FALSE)
    /\ pr = [p |-> PropertyNew(0, 0), q |-> vec_deque_new(0), ok |-> TRUE, got |-> 0,
             op |-> "new"]
    /\ notes = << >>
    /\ rp = replicate_impl(<< >>)
    /\ cmds = [history |-> << >>, host_tick |-> 0, seen |-> << >>, ok |-> "none",
               command |-> << >>]
    /\ hs = [requests |-> 0, last |-> << >>, response |-> "none", event |-> "none",
             sent |-> {}, disconnections |-> 0, gap |-> 0, late |-> FALSE]

\* history of keys without a record is empty
ForgetGone(s, f) == [k \in Keys |-> IF HasRecord(s, k) THEN f[k] ELSE {}]

\* an application call (add_*, pawn designation) that leaves the manager s
CallWithin(s, limit) ==
    /\ ~mgr.panicked
    /\ writer = "idle"
    /\ calls < limit
    /\ mgr' = s
    /\ calls' = calls + 1
    /\ lastPop' = << >>
    /\ UNCHANGED <<cur, ack, writer, drops, pending, carried, clientLog, packets>>
    /\ UNCHANGED <<writerVars, clientVars, restVars>>

Call(s) == CallWithin(s, MaxCalls)

\* a remove_* call that leaves the manager s; a call that changes nothing
\* is not a step
Remove(s) ==
    /\ ~mgr.panicked
    /\ writer = "idle"
    /\ mgr' = s
    /\ s # mgr
    /\ lastPop' = << >>
    /\ UNCHANGED <<cur, ack, writer, calls, drops, pending, carried, clientLog, packets>>
    /\ UNCHANGED <<writerVars, clientVars, restVars>>

AddObject(k) ==
    /\ ~HasRecord(mgr, k)
    /\ Call(add_object(mgr, k))

RemoveObject(k) ==
    /\ HasRecord(mgr, k)
    /\ Remove(remove_object(mgr, k))

AddPawn(k) ==
    /\ HasRecord(mgr, k)
    /\ ~has_pawn(mgr, k)
    /\ Call(add_pawn(mgr, k))

RemovePawn(k) ==
    /\ has_pawn(mgr, k)
    /\ Call(remove_pawn(mgr, k))

\* the server adds an entity: the list holds the members of the component
\* set it shares with the connection
AddEntity(e, list) ==
    /\ ~HasEntityRecord(mgr, e)
    /\ \A c \in ElementsOf(list) : ~HasRecord(mgr, c)
    /\ Call(add_entity(mgr, e, ElementsOf(list), list))

RemoveEntity(e) ==
    /\ HasEntityRecord(mgr, e)
    /\ Remove(remove_entity(mgr, e))

AddPawnEntity(e) ==
    /\ HasEntityRecord(mgr, e)
    /\ ~has_pawn_entity(mgr, e)
    /\ Call(add_pawn_entity(mgr, e))

RemovePawnEntity(e) ==
    /\ has_pawn_entity(mgr, e)
    /\ Call(remove_pawn_entity(mgr, e))

\* the server adds a component: it puts the key into the shared component
\* set of the entity and calls add_component
AddComponent(e, c) ==
    /\ HasEntityRecord(mgr, e)
    /\ ~HasRecord(mgr, c)
    /\ Call(add_component(components_insert(mgr, e, c), e, c))

\* the application writes property b of replicate k, as one of at most
\* `limit` calls
MutateWithin(k, b, limit) ==
    /\ ~mgr.panicked
    /\ writer = "idle"
    /\ calls < limit
    /\ HasRecord(mgr, k)
    /\ mgr' = MutHandlerMutate(mgr, k, b)
    /\ calls' = calls + 1
    /\ lastPop' = << >>
    /\ pending' = [pending EXCEPT ![k] = @ \cup {b}]
    /\ carried' = [p \in Packets |-> [carried[p] EXCEPT ![k] = @ \ {b}]]
    /\ UNCHANGED <<cur, ack, writer, drops, clientLog, packets>>
    /\ UNCHANGED <<writerVars, clientVars, restVars>>

Mutate(k, b) == MutateWithin(k, b, MaxCalls)

Collect ==
    /\ ~mgr.panicked
    /\ writer = "idle"
    /\ Len(mgr.queued_messages) < MaxQueue
    /\ \E order \in IterationOrders(RecordKeys(mgr)) :
            mgr' = collect_replicate_updates(mgr, order)
    /\ mgr' # mgr
    /\ lastPop' = << >>
    /\ UNCHANGED <<cur, ack, writer, calls, drops, pending, carried, clientLog, packets>>
    /\ UNCHANGED <<writerVars, clientVars, restVars>>

\* the bits of each key whose current value action a puts on the wire
CarriedBy(a) ==
    [k \in Keys |->
        CASE a.t \in {"CreateObject", "AddComponent", "UpdatePawn"} /\ a.k = k -> Bits
          [] a.t = "UpdateReplicate" /\ a.k = k -> a.m
          [] a.t = "CreateEntity" /\ a.cl # << >>
                /\ \E i \in 1 .. Len(a.cl[1]) : a.cl[1][i][1] = k -> Bits
          [] OTHER -> {}]

Pop ==
    /\ ~mgr.panicked
    /\ cur < MaxPacket
    /\ writer \in {"idle", "writing"}
    /\ has_outgoing_actions(mgr)
    /\ writer' = "writing"
    /\ \E order \in IterationOrders(PopIterated(mgr)) :
        /\ mgr' = pop_outgoing_action(mgr, cur, order)
        /\ IF PopPanics(mgr)
           THEN /\ lastPop' = << >>
                /\ carried' = carried
           ELSE /\ lastPop' = <<[a |-> PoppedAction(mgr, order), c |-> carried[cur]]>>
                /\ carried' = [carried EXCEPT ![cur] =
                        [k \in Keys |-> @[k] \cup CarriedBy(PoppedAction(mgr, order))[k]]]
    /\ packets' = IF PopPanics(mgr) THEN packets
                  ELSE [packets EXCEPT ![cur].written = @ + 1]
    /\ UNCHANGED <<cur, ack, calls, drops, pending, clientLog>>
    /\ UNCHANGED <<writerVars, clientVars, restVars>>

\* write_replicate_action returned false for the action just popped
Unpop ==
    /\ ~mgr.panicked
    /\ lastPop # << >>
    /\ writer' = "full"
    /\ mgr' = unpop_outgoing_action(mgr, cur, lastPop[1].a)
    /\ lastPop' = << >>
    /\ carried' = [carried EXCEPT ![cur] = lastPop[1].c]
    /\ packets' = [packets EXCEPT ![cur].written = @ - 1]
    /\ UNCHANGED <<cur, ack, calls, drops, pending, clientLog>>
    /\ UNCHANGED <<writerVars, clientVars, restVars>>

\* the writer drains the queue until it is empty or an action does not fit
SendPacket ==
    /\ ~mgr.panicked
    /\ writer = "full" \/ (writer = "writing" /\ ~has_outgoing_actions(mgr))
    /\ writer' = "idle"
    /\ cur' = cur + 1
    /\ lastPop' = << >>
    /\ UNCHANGED <<mgr, ack, calls, drops, pending, carried, clientLog, packets>>
    /\ UNCHANGED <<writerVars, clientVars, restVars>>

\* the actions recorded for packet p
SentIn(s, p) == IF p \in DOMAIN s.sent_messages THEN s.sent_messages[p] ELSE << >>

\* p: the packet that delivered the action
LogEntry(a, p) == [t |-> a.t, k |-> a.k, id |-> a.id, p |-> p]
ReliableOf(list) == SelectSeq(list, LAMBDA a : a.t \in ReliableTypes)
LogOf(list, p) ==
    [i \in 1 .. Len(ReliableOf(list)) |-> LogEntry(ReliableOf(list)[i], p)]

Deliver ==
    /\ ~mgr.panicked
    /\ writer = "idle"
    /\ ack < cur
    /\ \E order \in IterationOrders(DeliveryIterated(mgr, ack)) :
            mgr' = notify_packet_delivered(mgr, ack, order)
    /\ ack' = ack + 1
    /\ lastPop' = << >>
    /\ pending' = ForgetGone(mgr', [k \in Keys |-> pending[k] \ carried[ack][k]])
    /\ carried' = [p \in Packets |->
                      IF p = ack THEN NoBits ELSE ForgetGone(mgr', carried[p])]
    /\ clientLog' = clientLog \o LogOf(SentIn(mgr, ack), ack)
    /\ packets' = [packets EXCEPT ![ack].fate = "delivered"]
    /\ UNCHANGED <<cur, writer, calls, drops>>
    /\ UNCHANGED <<writerVars, clientVars, restVars>>

\* the masks recorded in sent_updates for packet p, per key
SnapshotOf(s, p) ==
    [k \in Keys |->
        IF p \in DOMAIN s.sent_updates /\ k \in DOMAIN s.sent_updates[p]
        THEN s.sent_updates[p][k] ELSE {}]

Drop ==
    /\ ~mgr.panicked
    /\ writer = "idle"
    /\ ack < cur
    /\ drops < MaxDrops
    /\ mgr' = notify_packet_dropped(mgr, ack)
    /\ ack' = ack + 1
    /\ drops' = drops + 1
    /\ lastPop' = << >>
    /\ carried' = [carried EXCEPT ![ack] = NoBits]
    /\ packets' = [packets EXCEPT ![ack].fate = "dropped",
                                  ![ack].lost = SnapshotOf(mgr, ack),
                                  ![ack].latest = mgr.last_update_packet_index]
    /\ UNCHANGED <<cur, writer, calls, pending, clientLog>>
    /\ UNCHANGED <<writerVars, clientVars, restVars>>

Next ==
    \/ \E k \in ObjKeys : AddObject(k)
    \/ \E k \in Keys : RemoveObject(k)
    \/ \E k \in Keys : AddPawn(k)
    \/ \E k \in Keys : RemovePawn(k)
    \/ \E e \in EntKeys, list \in ListsOf(CompKeys) : AddEntity(e, list)
    \/ \E e \in EntKeys : RemoveEntity(e)
    \/ \E e \in EntKeys : AddPawnEntity(e)
    \/ \E e \in EntKeys : RemovePawnEntity(e)
    \/ \E e \in EntKeys, c \in CompKeys : AddComponent(e, c)
    \/ \E k \in Keys, b \in Bits : Mutate(k, b)
    \/ Collect
    \/ Pop
    \/ Unpop
    \/ SendPacket
    \/ Deliver
    \/ Drop

Spec == Init /\ [][Next]_vars

\* ---------------------------------------------------------------------
\* Three views of the connection with fewer operations, each small enough to
\* explore exhaustively to the depth the properties below need.  Spec, with
\* every operation on every key, is the union of them.
\* ---------------------------------------------------------------------

\* objects only: lifecycle, pawn designation, property updates
NextObj ==
    \/ \E k \in ObjKeys : AddObject(k)
    \/ \E k \in ObjKeys : RemoveObject(k)
    \/ \E k \in ObjKeys : AddPawn(k)
    \/ \E k \in ObjKeys : RemovePawn(k)
    \/ \E k \in ObjKeys, b \in Bits : Mutate(k, b)
    \/ Collect
    \/ Pop
    \/ Unpop
    \/ SendPacket
    \/ Deliver
    \/ Drop

SpecObj == Init /\ [][NextObj]_vars

\* entities and their components: lifecycle, pawn entities, component updates
NextEnt ==
    \/ \E e \in EntKeys, list \in ListsOf(OneComp) : AddEntity(e, list)
    \/ \E e \in EntKeys : RemoveEntity(e)
    \/ \E e \in EntKeys, c \in OneComp : AddComponent(e, c)
    \/ \E k \in OneComp : RemoveObject(k)
    \/ \E e \in EntKeys : AddPawnEntity(e)
    \/ \E e \in EntKeys : RemovePawnEntity(e)
    \/ \E k \in OneComp : Mutate(k, 0)
    \/ Collect
    \/ Pop
    \/ Unpop
    \/ SendPacket
    \/ Deliver
    \/ Drop

SpecEnt == Init /\ [][NextEnt]_vars

\* the lifecycle of objects, entities and components together
NextLife ==
    \/ \E k \in ObjKeys : AddObject(k)
    \/ \E k \in ObjKeys \cup OneComp : RemoveObject(k)
    \/ \E e \in EntKeys, list \in ListsOf(OneComp) : AddEntity(e, list)
    \/ \E e \in EntKeys : RemoveEntity(e)
    \/ \E e \in EntKeys, c \in OneComp : AddComponent(e, c)
    \/ Pop
    \/ Unpop
    \/ SendPacket
    \/ Deliver
    \/ Drop

SpecLife == Init /\ [][NextLife]_vars

\* an entity that is removed and added again, as one of MaxAgain calls
AddEntityAgain(e, list) ==
    /\ ~HasEntityRecord(mgr, e)
    /\ \A c \in ElementsOf(list) : ~HasRecord(mgr, c)
    /\ CallWithin(add_entity(mgr, e, ElementsOf(list), list), MaxAgain)

AddComponentAgain(e, c) ==
    /\ HasEntityRecord(mgr, e)
    /\ ~HasRecord(mgr, c)
    /\ CallWithin(add_component(components_insert(mgr, e, c), e, c), MaxAgain)

NextAgain ==
    \/ \E e \in EntKeys, list \in ListsOf(OneComp) : AddEntityAgain(e, list)
    \/ \E e \in EntKeys : RemoveEntity(e)
    \/ \E e \in EntKeys, c \in OneComp : AddComponentAgain(e, c)
    \/ Pop
    \/ SendPacket
    \/ Deliver
    \/ Drop

SpecAgain == Init /\ [][NextAgain]_vars

\* calls of an application that does not keep to the contract of the manager,
\* made between two packets
AnyAddObject(k) ==
    /\ writer = "idle"
    /\ Call(add_object(mgr, k))

AnyRemoveObject(k) ==
    /\ writer = "idle"
    /\ Call(remove_object(mgr, k))

AnyAddPawn(k) ==
    /\ writer = "idle"
    /\ Call(add_pawn(mgr, k))

AnyRemovePawn(k) ==
    /\ writer = "idle"
    /\ Call(remove_pawn(mgr, k))

AnyAddEntity(e, comps, list) ==
    /\ writer = "idle"
    /\ Call(add_entity(mgr, e, comps, list))

AnyRemoveEntity(e) ==
    /\ writer = "idle"
    /\ Call(remove_entity(mgr, e))

AnyAddPawnEntity(e) ==
    /\ writer = "idle"
    /\ Call(add_pawn_entity(mgr, e))

AnyRemovePawnEntity(e) ==
    /\ writer = "idle"
    /\ Call(remove_pawn_entity(mgr, e))

AnyAddComponent(e, c) ==
    /\ writer = "idle"
    /\ Call(add_component(mgr, e, c))

\* it writes the component set of an entity without telling the manager
AnyInsertComponent(e, c) ==
    /\ writer = "idle"
    /\ HasEntityRecord(mgr, e)
    /\ c \notin mgr.local_entity_store[e].components
    /\ Call(components_insert(mgr, e, c))

AnyRemoveComponent(e, c) ==
    /\ writer = "idle"
    /\ HasEntityRecord(mgr, e)
    /\ c \in mgr.local_entity_store[e].components
    /\ Call(components_remove(mgr, e, c))

NextAny ==
    \/ \E k \in ObjKeys : AnyAddObject(k)
    \/ \E k \in ObjKeys : AnyRemoveObject(k)
    \/ \E k \in ObjKeys : AnyAddPawn(k)
    \/ \E k \in ObjKeys : AnyRemovePawn(k)
    \/ \E e \in EntKeys, comps \in SUBSET OneComp, list \in ListsOf(OneComp) :
            AnyAddEntity(e, comps, list)
    \/ \E e \in EntKeys : AnyRemoveEntity(e)
    \/ \E e \in EntKeys : AnyAddPawnEntity(e)
    \/ \E e \in EntKeys : AnyRemovePawnEntity(e)
    \/ \E e \in EntKeys, c \in OneComp : AnyAddComponent(e, c)
    \/ \E e \in EntKeys, c \in OneComp : AnyInsertComponent(e, c)
    \/ \E e \in EntKeys, c \in OneComp : AnyRemoveComponent(e, c)
    \/ Pop
    \/ SendPacket
    \/ Deliver

SpecAny == Init /\ [][NextAny]_vars

\* the ack tracker notifies the manager of a packet it has notified before, or
\* of an index no packet was written under: as delivered or as dropped
NotifyAgain(i, delivered) ==
    /\ ~mgr.panicked
    /\ writer = "idle"
    /\ i < ack \/ i >= cur
    /\ \A p \in Packets : packets[p].fate # "again"
    /\ \E order \in IterationOrders(DeliveryIterated(mgr, i)) :
            mgr' = IF delivered THEN notify_packet_delivered(mgr, i, order)
                   ELSE notify_packet_dropped(mgr, i)
    /\ packets' = [packets EXCEPT ![i].fate = "again"]
    /\ UNCHANGED <<cur, ack, writer, lastPop, calls, drops, pending, carried, clientLog>>
    /\ UNCHANGED <<writerVars, clientVars, restVars>>

\* objects, their updates and notifications that come twice
NextNotify ==
    \/ \E k \in ObjKeys : AddObject(k)
    \/ \E k \in ObjKeys : RemoveObject(k)
    \/ \E k \in ObjKeys, b \in Bits : Mutate(k, b)
    \/ Collect
    \/ Pop
    \/ SendPacket
    \/ Deliver
    \/ Drop
    \/ \E i \in Packets, delivered \in BOOLEAN : NotifyAgain(i, delivered)

SpecNotify == Init /\ [][NextNotify]_vars

\* objects whose properties are written again and again
NextUpd ==
    \/ \E k \in ObjKeys \cup OneComp : AddObject(k)
    \/ \E k \in ObjKeys \cup OneComp, b \in Bits : MutateWithin(k, b, MaxWrites)
    \/ Collect
    \/ Pop
    \/ Unpop
    \/ SendPacket
    \/ Deliver
    \/ Drop

SpecUpd == Init /\ [][NextUpd]_vars

\* ------------------------------------------------- the writer at work
\* write_replicate_action is called with action a
WriteReplicateAction(a) ==
    LET r == write_replicate_action(pw, a)
    IN  /\ ~pwLog.panicked
        /\ pw' = r.w
        /\ pwLog' = [written |-> IF r.ok THEN pwLog.written + 1 ELSE pwLog.written,
                      ok |-> IF r.panicked THEN "none"
                             ELSE IF r.ok THEN "true" ELSE "false",
                      panicked |-> r.panicked]
        /\ UNCHANGED <<connVars, clientVars, restVars>>

\* another section of the packet (messages) takes n bytes
WriteMessage(n) ==
    /\ ~pwLog.panicked
    /\ bytes_number(pw) + n < MTU_SIZE
    /\ pw' = [pw EXCEPT !.message_bytes = @ + n]
    /\ pwLog' = [pwLog EXCEPT !.ok = "none"]
    /\ UNCHANGED <<connVars, clientVars, restVars>>

\* the packet is sent: the writer starts the next one
GetBytes ==
    /\ ~pwLog.panicked
    /\ pw # PacketWriterNew
    /\ pw' = PacketWriterNew
    /\ pwLog' = [written |-> 0, ok |-> "none", panicked |-> FALSE]
    /\ UNCHANGED <<connVars, clientVars, restVars>>

NextWriter ==
    \/ \E a \in WriterInputs : WriteReplicateAction(a)
    \/ \E n \in MessageSizes : WriteMessage(n)
    \/ GetBytes

SpecWriter == Init /\ [][NextWriter]_vars

\* ------------------------------------------------- the client at work
\* Each action is one step of receive(): the branch on the connection, or one
\* turn of the loop over the packets of the socket.

\* every packet that leaves the client connected gives it a new connection
HeardByReplacing(c, c2, l) ==
    IF c2.server_connection THEN ServerConnectionNew ELSE l

\* what a packet read from the socket does to the connection, if there is one
HeardBy(c, c2, l) ==
    IF c.server_connection THEN mark_heard(l)
    ELSE IF c2.server_connection THEN ServerConnectionNew
    ELSE l

\* the handshake timer rings while there is no connection
HandshakeTimer(now) ==
    /\ ~client.panicked
    /\ ~client.server_connection
    /\ hs.requests < MaxRequests
    /\ client' = handshake_send(client, now)
    /\ hs' = [hs EXCEPT !.requests = @ + 1, !.last = HandshakeRequest(client'),
                        !.event = "none",
                        !.sent = {HandshakeRequest(client')[1].type}]
    /\ UNCHANGED <<link, connVars, writerVars, restVars>>

\* a ServerChallengeResponse packet arrives
ReceiveChallengeResponse(server_tick, payload_timestamp, digest) ==
    /\ ~client.panicked
    /\ client' = receive_challenge_response(client, server_tick, payload_timestamp, digest)
    /\ link' = HeardBy(client, client', link)
    /\ hs' = [hs EXCEPT !.response = IF client' = client THEN "ignored" ELSE "accepted",
                        !.event = "none", !.sent = {},
                        !.late = @ \/ client.server_connection]
    /\ UNCHANGED <<connVars, writerVars, restVars>>

\* a ServerConnectResponse packet arrives
ReceiveConnectResponse ==
    /\ ~client.panicked
    /\ client' = receive_connect_response(client)
    /\ link' = HeardBy(client, client', link)
    /\ hs' = IF client.server_connection
             THEN [hs EXCEPT !.event = "none", !.sent = {}, !.late = TRUE]
             ELSE [hs EXCEPT !.event = "Connection", !.sent = {},
                             !.disconnections = 0, !.gap = 0]
    /\ UNCHANGED <<connVars, writerVars, restVars>>

\* the connection timed out: receive() drops it and returns
DropConnection ==
    /\ ~client.panicked
    /\ client.server_connection
    /\ should_drop(link)
    /\ client' = drop_connection(client)
    /\ link' = ServerConnectionNew
    /\ hs' = [hs EXCEPT !.event = "Disconnection", !.sent = {},
                        !.disconnections = @ + 1, !.late = FALSE]
    /\ UNCHANGED <<connVars, writerVars, restVars>>

\* the connection is kept: heartbeat, ping and queued data are sent
ConnectedSend ==
    /\ ~client.panicked
    /\ client.server_connection
    /\ ~should_drop(link)
    /\ link' = connected_send(link).l
    /\ hs' = [hs EXCEPT !.event = "none", !.sent = connected_send(link).sent,
                        !.gap = IF "Heartbeat" \in connected_send(link).sent
                                THEN 0 ELSE @]
    /\ UNCHANGED <<client, connVars, writerVars, restVars>>

\* a Data, Heartbeat or Pong packet of the server arrives on the connection
ReceivePeerPacket ==
    /\ ~client.panicked
    /\ client.server_connection
    /\ link' = mark_heard(link)
    /\ hs' = [hs EXCEPT !.event = "none", !.sent = {}]
    /\ UNCHANGED <<client, connVars, writerVars, restVars>>

\* the application queues a message (send_message)
SendMessage ==
    /\ ~client.panicked
    /\ client.server_connection
    /\ link.outgoing = 0
    /\ link' = [link EXCEPT !.outgoing = 1]
    /\ UNCHANGED <<client, hs, connVars, writerVars, restVars>>

\* one unit of time passes on a connection
TimePasses ==
    /\ ~client.panicked
    /\ client.server_connection
    /\ link' = [link EXCEPT
            !.heartbeat_timer = IF @ < HeartbeatInterval THEN @ + 1 ELSE @,
            !.timeout_timer = IF @ < DisconnectionTimeout THEN @ + 1 ELSE @,
            !.ping_timer = IF @ < PingInterval THEN @ + 1 ELSE @]
    /\ hs' = [hs EXCEPT !.gap = IF @ < HeartbeatInterval THEN @ + 1 ELSE @]
    /\ link' # link \/ hs' # hs
    /\ UNCHANGED <<client, connVars, writerVars, restVars>>

\* the socket reports an error: receive() returns it wrapped
SocketError ==
    /\ ~client.panicked
    /\ hs' = [hs EXCEPT !.event = "Error", !.sent = {}]
    /\ UNCHANGED <<client, link, connVars, writerVars, restVars>>

\* a ServerChallengeResponse packet with a truncated payload arrives
ReceiveShortChallengeResponse(len) ==
    /\ ~client.panicked
    /\ client' = receive_short_challenge_response(client, len)
    /\ link' = HeardBy(client, client', link)
    /\ hs' = [hs EXCEPT !.event = IF client'.panicked THEN "abort" ELSE "none",
                        !.sent = {}]
    /\ UNCHANGED <<connVars, writerVars, restVars>>

\* a packet of a type receive() has no arm for arrives
ReceiveUnknownPacket ==
    /\ ~client.panicked
    /\ link' = HeardBy(client, client, link)
    /\ hs' = [hs EXCEPT !.event = "none", !.sent = {}]
    /\ UNCHANGED <<client, connVars, writerVars, restVars>>

NextClient ==
    \/ \E now \in Timestamps : HandshakeTimer(now)
    \/ \E t \in Ticks, ts \in Timestamps, d \in Digests : ReceiveChallengeResponse(t, ts, d)
    \/ ReceiveConnectResponse
    \/ DropConnection
    \/ ConnectedSend
    \/ ReceivePeerPacket
    \/ SendMessage
    \/ TimePasses
    \/ SocketError
    \/ \E len \in ShortLengths : ReceiveShortChallengeResponse(len)
    \/ ReceiveUnknownPacket

SpecClient == Init /\ [][NextClient]_vars

\* ------------------------------------------- the handshake with its server
\* The client facing a server that answers its requests over a network that
\* delays and repeats packets: the timer keeps ringing while there is no
\* connection, and the answer to the request sent last keeps arriving.

\* the handshake timer rings, however many requests were sent before
HandshakeRetry(now) ==
    /\ ~client.panicked
    /\ ~client.server_connection
    /\ client' = handshake_send(client, now)
    /\ hs' = [hs EXCEPT !.requests = IF @ < MaxRequests THEN @ + 1 ELSE @,
                        !.last = HandshakeRequest(client'),
                        !.event = "none",
                        !.sent = {HandshakeRequest(client')[1].type}]
    /\ UNCHANGED <<link, connVars, writerVars, restVars>>

\* the server's answer to the request sent last arrives: a challenge
\* response that echoes the timestamp of the request, or a connect response
ServerAnswers(server_tick, digest) ==
    /\ hs.last # << >>
    /\ \/ /\ hs.last[1].type = "ClientChallengeRequest"
          /\ ReceiveChallengeResponse(server_tick, hs.last[1].timestamp[1], digest)
       \/ /\ hs.last[1].type = "ClientConnectRequest"
          /\ ReceiveConnectResponse

NextHandshake ==
    \/ \E now \in Timestamps : HandshakeRetry(now)
    \/ \E t \in Ticks, d \in Digests : ServerAnswers(t, d)
    \/ DropConnection
    \/ ConnectedSend
    \/ ReceivePeerPacket
    \/ SendMessage
    \/ TimePasses

SpecHandshake ==
    /\ Init /\ [][NextHandshake]_vars
    /\ WF_vars(\E now \in Timestamps : HandshakeRetry(now))
    /\ WF_vars(\E t \in Ticks, d \in Digests : ServerAnswers(t, d))


\* ------------------------------------------- the command writer at work
\* a command of the pawn, issued at tick t, joins the history
CommandIssued(t) ==
    /\ Len(cmds.history) < MaxHistory
    /\ \A i \in 1 .. Len(cmds.history) : cmds.history[i] # t
    /\ cmds' = [cmds EXCEPT !.history = Append(@, t)]
    /\ UNCHANGED <<cw, notCommand>>

\* write_command is called for a command of the pawn at host tick t
WriteCommand(t) ==
    LET r == write_command(cw, cmds.history, t)
    IN  /\ cw' = r.w
        /\ cmds' = [cmds EXCEPT !.host_tick = t, !.seen = cmds.history,
                                !.ok = r.ok, !.command = r.command]
        /\ UNCHANGED notCommand

\* write_message is called for a message of n bytes
WriteCommandMessage(n) ==
    /\ cw' = write_message(cw, n).w
    /\ cw' # cw
    /\ cmds' = [cmds EXCEPT !.ok = "none", !.command = << >>]
    /\ UNCHANGED notCommand

\* the packet is sent: get_bytes empties the writer
CommandsSent ==
    /\ has_bytes(cw)
    /\ cw' = get_bytes(cw)
    /\ cmds' = [cmds EXCEPT !.ok = "none", !.command = << >>]
    /\ UNCHANGED notCommand

NextCommand ==
    \/ \E t \in CommandTicks : CommandIssued(t)
    \/ \E t \in HostTicks : WriteCommand(t)
    \/ \E n \in MessageSizes : WriteCommandMessage(n)
    \/ CommandsSent

SpecCommand == Init /\ [][NextCommand]_vars


\* ------------------------------------------------ the socket at work
\* Socket::listen: panics when already listening, else creates the channels,
\* spawns the two tasks and stores the io
Listen ==
    /\ ~sock.panicked
    /\ sock' = IF sock.io THEN [sock EXCEPT !.panicked = TRUE]
                ELSE [sock EXCEPT !.io = TRUE]
    /\ UNCHANGED notSocket

\* the receiver task: the async socket listens and its sender is sent
\* through the bounded channel
SenderHandedOver ==
    /\ sock.io /\ ~sock.panicked
    /\ sock.sender_channel = "empty"
    /\ sock' = [sock EXCEPT !.sender_channel = "full"]
    /\ UNCHANGED notSocket

\* the sender task: sender_receiver.recv()
SenderTaken ==
    /\ sock.io /\ ~sock.panicked
    /\ sock.sender_channel = "full"
    /\ sock' = [sock EXCEPT !.sender_channel = "taken",
                            !.early = Len(sock.to_client)]
    /\ UNCHANGED notSocket

\* the number of payloads the exploration lets the socket carry
Forwardable(s) == IF s.link_condition THEN MaxConditioned ELSE MaxForwarded

\* the receiver task's loop, async_socket.receive(): a payload of a client
\* is received (the exploration stops at MaxBuffered payloads)
FromClient(p) ==
    /\ sock.io /\ ~sock.panicked
    /\ sock.sender_channel # "empty"
    /\ sock.receiving = << >>
    /\ Len(sock.from_client) < MaxBuffered
    /\ Len(sock.heard) < Forwardable(sock)
    /\ sock' = [sock EXCEPT !.receiving = <<p>>, !.heard = Append(@, p)]
    /\ UNCHANGED notSocket

\* the receiver task's loop, from_client_sender.send: the payload received
\* enters from_client
FromClientSend ==
    /\ sock.io /\ ~sock.panicked
    /\ sock.receiving # << >>
    /\ LET r == unbounded_send(sock.from_client, sock.receiving[1])
       IN  /\ r # << >>
           /\ sock' = [sock EXCEPT !.from_client = r[1], !.receiving = << >>]
    /\ UNCHANGED notSocket

\* the caller receives from a socket without link conditioner: the packet
\* receiver takes the oldest payload
PacketReceive ==
    /\ sock.io /\ ~sock.panicked
    /\ ~sock.link_condition
    /\ sock.from_client # << >>
    /\ sock' = [sock EXCEPT !.from_client = Tail(@),
                            !.taken = Append(@, Head(sock.from_client)),
                            !.got = Append(@, Head(sock.from_client))]
    /\ UNCHANGED notSocket

\* the caller receives from a socket with a link conditioner: the
\* conditioned receiver takes all that waits in from_client, drops, keeps or
\* duplicates each payload, and hands out one of those it holds, or none
ConditionedPacketReceive ==
    /\ sock.io /\ ~sock.panicked
    /\ sock.link_condition
    /\ \E copies \in [1 .. Len(sock.from_client) -> 0 .. 2] :
       \E out \in Payloads \cup {0} :
          LET held == link_conditioner(sock.held, sock.from_client, copies)
          IN  /\ out # 0 => held[out] > 0
              /\ sock' = [sock EXCEPT
                            !.from_client = << >>,
                            !.taken = @ \o sock.from_client,
                            !.held = IF out = 0 THEN held
                                     ELSE [held EXCEPT ![out] = @ - 1],
                            !.got = IF out = 0 THEN @ ELSE Append(@, out)]
              /\ sock' # sock
    /\ UNCHANGED notSocket

\* the caller sends: the packet sender sends a payload into to_client (the
\* exploration stops at MaxBuffered payloads)
PacketSend(p) ==
    /\ sock.io /\ ~sock.panicked
    /\ Len(sock.to_client) < MaxBuffered
    /\ Len(sock.sent) < Forwardable(sock)
    /\ LET r == unbounded_send(sock.to_client, p)
       IN  /\ r # << >>
           /\ sock' = [sock EXCEPT !.to_client = r[1],
                                   !.sent = Append(@, p)]
    /\ UNCHANGED notSocket

\* the sender task's loop, to_client_receiver.recv(): the task takes the
\* oldest payload of to_client
ToClient ==
    /\ sock.io /\ ~sock.panicked
    /\ sock.sender_channel = "taken"
    /\ sock.sending = << >>
    /\ sock.to_client # << >>
    /\ sock' = [sock EXCEPT !.to_client = Tail(@),
                            !.sending = <<Head(sock.to_client)>>]
    /\ UNCHANGED notSocket

\* the sender task's loop, async_sender.send: the payload taken goes to the
\* async sender
ToClientSend ==
    /\ sock.io /\ ~sock.panicked
    /\ sock.sending # << >>
    /\ sock' = [sock EXCEPT !.sending = << >>,
                            !.wire = Append(@, sock.sending[1])]
    /\ UNCHANGED notSocket

\* Socket::new with a configuration: link_condition given or not
SocketNewWith(link_condition) ==
    /\ ~sock.io /\ ~sock.panicked
    /\ sock.link_condition # link_condition
    /\ sock' = SocketNew(link_condition)
    /\ UNCHANGED notSocket

NextSocket ==
    \/ \E link_condition \in BOOLEAN : SocketNewWith(link_condition)
    \/ Listen
    \/ SenderHandedOver
    \/ SenderTaken
    \/ \E p \in Payloads : FromClient(p)
    \/ FromClientSend
    \/ PacketReceive
    \/ ConditionedPacketReceive
    \/ \E p \in Payloads : PacketSend(p)
    \/ ToClient
    \/ ToClientSend

SpecSocket == Init /\ [][NextSocket]_vars

\* ------------------------------------------------ the property at work
\* a component is built with a property of the given index
NewProperty(v, i) ==
    /\ pr' = [pr EXCEPT !.p = PropertyNew(v, i), !.op = "new"]
    /\ UNCHANGED <<notes, notProperty>>

SetMutator ==
    /\ pr' = [pr EXCEPT !.p = set_mutator(pr.p), !.op = "set_mutator"]
    /\ UNCHANGED <<notes, notProperty>>

\* the caller reads the value: *property
DerefGet ==
    /\ pr' = [pr EXCEPT !.got = deref(pr.p), !.op = "deref"]
    /\ UNCHANGED <<notes, notProperty>>

\* the caller assigns: *property = v
DerefMutSet(v) ==
    /\ Len(notes) < MaxNotes
    /\ LET r == deref_mut(pr.p, notes, v)
       IN  /\ pr' = [pr EXCEPT !.p = r.p, !.op = "deref_mut"]
           /\ notes' = r.log
    /\ UNCHANGED notProperty

\* property.mirror(other), other a property without mutator holding v
Mirror(v) ==
    /\ Len(notes) < MaxNotes
    /\ LET r == mirror(pr.p, notes, PropertyNew(v, pr.p.mutator_index))
       IN  /\ pr' = [pr EXCEPT !.p = r.p, !.op = "mirror"]
           /\ notes' = r.log
    /\ UNCHANGED notProperty

\* property.read(reader), the packet holding v
Read(v) ==
    /\ pr' = [pr EXCEPT !.p = read(pr.p, v), !.op = "read"]
    /\ UNCHANGED <<notes, notProperty>>

\* Property::new_read(reader, i), the packet holding v
NewRead(v, i) ==
    /\ pr' = [pr EXCEPT !.p = new_read(v, i), !.op = "new_read"]
    /\ UNCHANGED <<notes, notProperty>>

\* feature bevy_support: the caller writes one field through
\* Struct::field_mut or field_at_mut
FieldMut(name, v) ==
    /\ pr' = [pr EXCEPT !.p = field_mut(pr.p, name, v), !.op = "field_mut"]
    /\ UNCHANGED <<notes, notProperty>>

\* feature bevy_support: Reflect::set with another property as the value
ReflectSet(other) ==
    /\ pr' = [pr EXCEPT !.p = reflect_set(pr.p, other), !.op = "reflect_set"]
    /\ UNCHANGED <<notes, notProperty>>

\* feature bevy_support: Reflect::apply with another property as the value
ReflectApply(other) ==
    /\ pr' = [pr EXCEPT !.p = reflect_apply(pr.p, other), !.op = "reflect_apply"]
    /\ UNCHANGED <<notes, notProperty>>

\* a component is built with a VecDequeEntityProperty of the given index
VecDequeNew(i) ==
    /\ pr' = [pr EXCEPT !.q = vec_deque_new(i), !.op = "deque_new"]
    /\ UNCHANGED <<notes, notProperty>>

VecDequeSetMutator ==
    /\ pr' = [pr EXCEPT !.q = vec_deque_set_mutator(pr.q), !.op = "deque_set_mutator"]
    /\ UNCHANGED <<notes, notProperty>>

\* the caller sets the deque to the given entities
VecDequeSet(entities) ==
    /\ LET r == vec_deque_set(pr.q, notes, entities)
       IN  /\ pr' = [pr EXCEPT !.q = r.q, !.op = "deque_set"]
           /\ notes' = r.log
    /\ UNCHANGED notProperty

\* deque.mirror(other)
VecDequeMirror(other) ==
    /\ Len(notes) + Len(pr.q) <= MaxNotes
    /\ LET r == vec_deque_mirror(pr.q, notes, other)
       IN  /\ pr' = [pr EXCEPT !.q = r.q, !.op = "deque_mirror"]
           /\ notes' = r.log
    /\ UNCHANGED notProperty

\* deque.read(reader) of a packet; ok records whether Ok(()) was returned
VecDequeRead(packet) ==
    /\ Len(notes) + Len(pr.q) <= MaxNotes
    /\ LET r == vec_deque_read(pr.q, notes, packet)
       IN  /\ pr' = [pr EXCEPT !.q = r.q, !.ok = r.ok, !.op = "deque_read"]
           /\ notes' = r.log
    /\ UNCHANGED notProperty

\* VecDequeEntityProperty::new_read(reader, i) of a packet: the deque read
\* replaces the one held; on an error the one held stays
VecDequeNewRead(packet, i) ==
    /\ LET r == vec_deque_new_read(packet, i)
       IN  pr' = [pr EXCEPT !.q = IF r.ok THEN r.q ELSE @, !.ok = r.ok,
                            !.op = "deque_new_read"]
    /\ UNCHANGED <<notes, notProperty>>

\* the values of the fields a reflective write is given
FieldValues(name) ==
    CASE name = "inner" -> Values
      [] name = "mutator" -> BOOLEAN
      [] name = "mutator_index" -> MutatorIndices

\* the properties a reflective write is given
PropertyInputs == [inner : {2}, mutator : BOOLEAN, mutator_index : {0, 7}]

DequeEntities == {<<1>>, <<1, 2>>}          \* the entities a deque is set to
DequeValues == {<<2>>, <<2, 0>>}            \* the Options of a deque

\* the deques a deque mirrors: elements without mutator
DequeOthers == {<<PropertyNew(0, 0)>>, <<PropertyNew(2, 0), PropertyNew(0, 0)>>}

\* the packets a deque is read from: whole ones of no, one and two Options,
\* and ones cut short before the first and before the second Option
DequePackets ==
    {[length |-> Len(values), values |-> values] : values \in DequeValues}
        \cup {[length |-> 0, values |-> << >>],
              [length |-> 1, values |-> << >>], [length |-> 2, values |-> <<2>>]}

NextProperty ==
    \/ \E v \in Values, i \in MutatorIndices : NewProperty(v, i)
    \/ SetMutator
    \/ DerefGet
    \/ \E v \in Values : DerefMutSet(v)
    \/ \E v \in Values : Mirror(v)
    \/ \E v \in Values : Read(v)
    \/ \E v \in Values, i \in MutatorIndices : NewRead(v, i)
    \/ \E name \in ReflectedFields : \E v \in FieldValues(name) : FieldMut(name, v)
    \/ \E other \in PropertyInputs : ReflectSet(other)
    \/ \E other \in PropertyInputs : ReflectApply(other)
    \/ \E i \in MutatorIndices : VecDequeNew(i)
    \/ VecDequeSetMutator
    \/ \E entities \in DequeEntities : VecDequeSet(entities)
    \/ \E other \in DequeOthers : VecDequeMirror(other)
    \/ \E packet \in DequePackets : VecDequeRead(packet)
    \/ \E packet \in DequePackets, i \in MutatorIndices : VecDequeNewRead(packet, i)

SpecProperty == Init /\ [][NextProperty]_vars

\* ------------------------------------------------ the derived code at work
\* the struct is declared with one more field and Replicate derived on it
DeclareField(f) ==
    /\ Len(rp.fields) < MaxFields
    /\ rp' = replicate_impl(Append(rp.fields, f))
    /\ UNCHANGED notDerive

\* write_update with a mask of one bit set, then read_apply_update of what
\* was written
WriteUpdate(b) ==
    /\ b < 8 * rp.diff_mask_size
    /\ LET props == properties(rp.fields)
           update == write_update(props, property_enum(props), {b})
       IN  rp' = [rp EXCEPT !.mask = {b}, !.update = update,
                            !.applied = read_apply_update(props, update)]
    /\ UNCHANGED notDerive

\* a property is declared on a struct of fewer than MaxProps properties
DeclareProperty(f) ==
    /\ Len(rp.fields) < MaxProps
    /\ rp' = replicate_impl(Append(rp.fields, f))
    /\ UNCHANGED notDerive

\* the server writes the update of a replica s under a mask and the client
\* applies it to its replica r
UpdateRoundTrip ==
    /\ ~rp.trip.done
    /\ rp.fields # << >>
    /\ \E s \in Replicas(properties(rp.fields)),
          r \in Replicas(properties(rp.fields)),
          mask \in SUBSET (0 .. Len(rp.fields) - 1),
          setting \in MutatorSettings :
            rp' = [rp EXCEPT !.trip =
                      update_round_trip(properties(rp.fields), s, r, mask, setting)]
    /\ UNCHANGED notDerive

NextRoundTrip ==
    \/ \E f \in FieldTypes : DeclareProperty(f)
    \/ UpdateRoundTrip

SpecRoundTrip == Init /\ [][NextRoundTrip]_vars

NextDerive ==
    \/ \E f \in FieldTypes : DeclareField(f)
    \/ \E b \in UpdateBits : WriteUpdate(b)

SpecDerive == Init /\ [][NextDerive]_vars

\* ========================================================================
\* Properties
\* ========================================================================

\* the snapshots of the packets written and not yet notified that hold bit b
\* of key k
InFlightSnapshots(k, b) ==
    {p \in DOMAIN mgr.sent_updates :
        k \in DOMAIN mgr.sent_updates[p] /\ b \in mgr.sent_updates[p][k]}

\* C1: a bit of a created replicate that was mutated and has not been carried
\* by a delivered packet is set in the live diff mask of the key or in the
\* sent_updates snapshot of a packet still in flight.
C1_NoBitLost ==
    ~mgr.panicked =>
        \A k \in Keys : mgr.replicate_records[k].status = "Created" =>
            \A b \in pending[k] :
                \/ b \in mgr.replicate_records[k].diff_mask
                \/ InFlightSnapshots(k, b) # {}

\* C2: reliable actions are delivered in the order of their first enqueue:
\* of two delivered reliable actions, the one enqueued first was delivered by
\* a packet no later than the packet that delivered the other.
C2_EnqueueOrder ==
    \A i, j \in DOMAIN clientLog :
        clientLog[i].id < clientLog[j].id => clientLog[i].p <= clientLog[j].p

\* nothing is queued or in flight and the writer is between packets
Settled ==
    /\ ~mgr.panicked
    /\ writer = "idle"
    /\ mgr.queued_messages = << >>
    /\ DOMAIN mgr.sent_messages = {}

\* the positions of clientLog that changed the pawn designation of object k
PawnEvents(k) ==
    {i \in DOMAIN clientLog :
        clientLog[i].k = k /\ clientLog[i].t \in {"AssignPawn", "UnassignPawn"}}

\* the client sees k as a pawn: the last designation it applied is AssignPawn
ClientPawn(k) ==
    /\ PawnEvents(k) # {}
    /\ clientLog[CHOOSE i \in PawnEvents(k) : \A j \in PawnEvents(k) : j <= i].t
            = "AssignPawn"

\* C3: once every queued and in-flight action has been delivered, the client
\* sees an object of the connection as a pawn iff the pawn store holds it.
C3_FinalPawnStatus ==
    Settled =>
        \A k \in ObjKeys :
            HasRecord(mgr, k) => (ClientPawn(k) <=> has_pawn(mgr, k))

\* nothing is left to send: Settled, and collect_replicate_updates would
\* enqueue nothing
Quiescent ==
    /\ Settled
    /\ \A order \in IterationOrders(RecordKeys(mgr)) :
            collect_replicate_updates(mgr, order) = mgr

\* C4: when nothing is left to send, every mutation of a created object has
\* been carried by a delivered packet (the finite form of: every mutation is
\* eventually delivered).
C4_MutationsDelivered ==
    Quiescent =>
        \A k \in ObjKeys :
            mgr.replicate_records[k].status = "Created" => pending[k] = {}

\* the step is the notification that packet `ack` was delivered
DeliverStep == ack' = ack + 1 /\ packets'[ack].fate = "delivered"

\* action a, recorded for a packet, is the creation that introduced the
\* present record of replicate k: a CreateObject or AddComponent for k
\* enqueued after the record was installed, or the CreateEntity of the
\* present record of the entity that bundles k
IntroducesReplicate(a, k) ==
    \/ /\ a.t \in {"CreateObject", "AddComponent"}
       /\ a.k = k
       /\ a.id > mgr.replicate_records[k].born
    \/ /\ a.t = "CreateEntity"
       /\ a.cl # << >>
       /\ \E i \in DOMAIN a.cl[1] : a.cl[1][i][1] = k
       /\ a.id > mgr.local_entity_store[a.k].born

IntroducesEntity(a, e) ==
    /\ a.t = "CreateEntity"
    /\ a.k = e
    /\ a.id > mgr.local_entity_store[e].born

\* C5: a replicate or entity record goes from Creating to Created only in
\* notify_packet_delivered, and only when the delivered packet carried the
\* creation that introduced the record.
C5_PromotedOnlyByOwnCreation ==
    [][ /\ \A k \in Keys :
            (/\ mgr.replicate_records[k].status = "Creating"
             /\ mgr'.replicate_records[k].status = "Created")
            => /\ DeliverStep
               /\ \E i \in DOMAIN SentIn(mgr, ack) :
                    IntroducesReplicate(SentIn(mgr, ack)[i], k)
        /\ \A e \in EntKeys :
            (/\ mgr.local_entity_store[e].status = "Creating"
             /\ mgr'.local_entity_store[e].status = "Created")
            => /\ DeliverStep
               /\ \E i \in DOMAIN SentIn(mgr, ack) :
                    IntroducesEntity(SentIn(mgr, ack)[i], e) ]_vars

\* the actions queued or recorded for a packet not yet notified
Outstanding ==
    {mgr.queued_messages[i] : i \in DOMAIN mgr.queued_messages}
        \cup UNION {{mgr.sent_messages[p][i] : i \in DOMAIN mgr.sent_messages[p]} :
                        p \in DOMAIN mgr.sent_messages}

\* C6: while a record is Creating (its creation is not delivered yet) no
\* delete action for its key is queued or written into a packet; a removal
\* requested meanwhile only puts the key into the delayed-deletion set.
C6_NoDeleteBeforeCreated ==
    ~mgr.panicked =>
        /\ \A k \in Keys : mgr.replicate_records[k].status = "Creating" =>
                ~\E a \in Outstanding : a.t = "DeleteReplicate" /\ a.k = k
        /\ \A e \in EntKeys : mgr.local_entity_store[e].status = "Creating" =>
                ~\E a \in Outstanding : a.t = "DeleteEntity" /\ a.k = e

\* C7: a deferred deletion stays with its record until the creation is
\* delivered: a key of a delayed-deletion set has a record that is Creating
\* (delivery of the creation takes the key out of the set and enqueues the
\* delete; it never promotes the record and leaves the deletion behind).
C7_DeferredDeletionKept ==
    ~mgr.panicked =>
        /\ \A k \in mgr.delayed_replicate_deletions :
                mgr.replicate_records[k].status = "Creating"
        /\ \A e \in mgr.delayed_entity_deletions :
                mgr.local_entity_store[e].status = "Creating"

\* the step pops an action out of the queue into the packet being written
PopStep == lastPop' # << >> /\ Len(mgr'.queued_messages) < Len(mgr.queued_messages)

\* C8: no AddComponent or update for a component of an entity is popped
\* while the entity is Creating, that is before its CreateEntity is delivered.
C8_ComponentActionsAfterCreateEntity ==
    [][ PopStep =>
            \A e \in EntKeys :
                (/\ lastPop'[1].a.t \in {"AddComponent"} \cup UpdateTypes
                 /\ lastPop'[1].a.k \in mgr.local_entity_store[e].components)
                => mgr.local_entity_store[e].status # "Creating" ]_vars

\* C9: every key of the pawn object store and of the pawn entity store has a
\* record that is not Deleting.
C9_PawnsHaveLiveRecords ==
    ~mgr.panicked =>
        /\ \A k \in mgr.pawn_object_store :
                mgr.replicate_records[k].status \in {"Creating", "Created"}
        /\ \A e \in mgr.pawn_entity_store :
                mgr.local_entity_store[e].status \in {"Creating", "Created"}

\* C10 as stated: the list of actions recorded for packet i is absent iff
\* the packet was delivered or no action was written into it.
C10_AbsentIffDeliveredOrEmpty ==
    \A i \in Packets :
        (i \notin DOMAIN mgr.sent_messages)
            <=> (packets[i].fate = "delivered" \/ packets[i].written = 0)

\* C10, amended: the list of actions recorded for packet i is absent iff
\* the packet was notified, as delivered or as dropped, or holds no written
\* action (none was written, or each one written was taken back).
C10_AbsentIffNotifiedOrEmpty ==
    \A i \in Packets :
        (i \notin DOMAIN mgr.sent_messages)
            <=> (packets[i].fate \in {"delivered", "dropped"} \/ packets[i].written = 0)

\* a packet that held written actions was dropped and its list is gone
C10_DroppedPacketForgotten ==
    \E i \in Packets :
        /\ packets[i].fate = "dropped"
        /\ packets[i].written > 0
        /\ i \notin DOMAIN mgr.sent_messages

\* C11: an update action for a key whose record is Deleting is never popped
\* with a diff mask that has bits set.
C11_NoUpdateBitsWhileDeleting ==
    [][ (/\ PopStep
         /\ lastPop'[1].a.t \in UpdateTypes
         /\ mgr.replicate_records[lastPop'[1].a.k].status = "Deleting")
        => DiffMaskIsClear(lastPop'[1].a.m) ]_vars

\* the step is the notification that packet `ack` was dropped
DropStep == ack' = ack + 1 /\ packets'[ack].fate = "dropped"

\* the keys that have an update recorded in packet i
UpdatedIn(i) == IF i \in DOMAIN mgr.sent_updates THEN DOMAIN mgr.sent_updates[i] ELSE {}

\* the update packets strictly between packet i and packet latest, in the
\* wrapping order of packet indices
UpdatePacketsBetween(i, latest) ==
    {p \in DOMAIN mgr.sent_updates :
        /\ (p - i) % PacketMod > 0
        /\ (p - i) % PacketMod < (latest - i) % PacketMod}

\* the bits sent for key k in the packets of set ps
SentBits(k, ps) ==
    UNION {mgr.sent_updates[p][k] : p \in {q \in ps : k \in DOMAIN mgr.sent_updates[q]}}

\* C12: when packet i is dropped, the live mask of every key updated in it
\* becomes live OR (mask sent in i AND NOT the masks sent for the key in the
\* update packets strictly between i and the latest update packet); the
\* masks of the other keys stay, and sent_updates[i] is removed.
C12_DropRestoresMask ==
    [][ DropStep =>
          /\ \A k \in Keys : HasRecord(mgr, k) =>
                mgr'.replicate_records[k].diff_mask =
                    IF k \in UpdatedIn(ack)
                    THEN DiffMaskOr(mgr.replicate_records[k].diff_mask,
                            DiffMaskNand(mgr.sent_updates[ack][k],
                                SentBits(k, UpdatePacketsBetween(ack,
                                            mgr.last_update_packet_index))))
                    ELSE mgr.replicate_records[k].diff_mask
          /\ ack \notin DOMAIN mgr'.sent_updates ]_vars

\* a packet was dropped whose update of key k shared a bit with a later
\* update packet that is not the latest: the bit was not put back into the
\* live mask
C12_DropWithLaterResend ==
    \E i \in Packets, k \in Keys, b \in Bits :
        /\ packets[i].fate = "dropped"
        /\ ack = i + 1
        /\ b \in packets[i].lost[k]
        /\ HasRecord(mgr, k)
        /\ b \notin mgr.replicate_records[k].diff_mask
        /\ \E p \in UpdatePacketsBetween(i, packets[i].latest) :
                k \in DOMAIN mgr.sent_updates[p] /\ b \in mgr.sent_updates[p][k]

\* the writer may pop the action at the head of the queue into packet cur
CanPop ==
    /\ ~mgr.panicked
    /\ cur < MaxPacket
    /\ writer \in {"idle", "writing"}
    /\ has_outgoing_actions(mgr)
    /\ ~PopPanics(mgr)

\* the manager after the head action is popped into packet cur and unpopped
PopThenUnpop(order) ==
    unpop_outgoing_action(pop_outgoing_action(mgr, cur, order), cur,
                          PoppedAction(mgr, order))

\* C13: unpop after pop restores the manager: the action is back at the head
\* of the queue, the sent actions and the update snapshots of every packet are
\* as before the pop, every live diff mask is identical and the index of the
\* last update packet has its value of before the pop.
C13_UnpopReversesPop ==
    CanPop =>
        \A order \in IterationOrders(PopIterated(mgr)) :
        LET u == PopThenUnpop(order)
        IN  /\ ~u.panicked
            /\ Len(u.queued_messages) = Len(mgr.queued_messages)
            /\ Head(u.queued_messages).t = Head(mgr.queued_messages).t
            /\ Head(u.queued_messages).k = Head(mgr.queued_messages).k
            /\ Tail(u.queued_messages) = Tail(mgr.queued_messages)
            /\ u.sent_messages = mgr.sent_messages
            /\ u.sent_updates = mgr.sent_updates
            /\ \A k \in Keys : u.replicate_records[k] = mgr.replicate_records[k]
            /\ u.last_update_packet_index = mgr.last_update_packet_index

\* the global keys of the components a CreateEntity action bundles
BundledKeys(a) ==
    IF a.cl = << >> THEN {} ELSE {a.cl[1][i][1] : i \in 1 .. Len(a.cl[1])}

\* an AddComponent action for component c, enqueued after the action of rank
\* n was, is queued or in flight
AddComponentOutstanding(s, c, n) ==
    \/ \E i \in 1 .. Len(s.queued_messages) :
            /\ s.queued_messages[i].t = "AddComponent"
            /\ s.queued_messages[i].k = c
            /\ s.queued_messages[i].id > n
    \/ \E p \in DOMAIN s.sent_messages : \E i \in 1 .. Len(s.sent_messages[p]) :
            /\ s.sent_messages[p][i].t = "AddComponent"
            /\ s.sent_messages[p][i].k = c
            /\ s.sent_messages[p][i].id > n

\* the CreateEntity actions recorded for packet p
CreateEntitiesIn(s, p) ==
    {SentIn(s, p)[i] : i \in {j \in 1 .. Len(SentIn(s, p)) : SentIn(s, p)[j].t = "CreateEntity"}}

\* C14, for an entity whose removal was not requested while it was Creating:
\* the popped CreateEntity bundles every component attached to the entity so
\* far and none of them has an AddComponent of its own; when the packet
\* carrying it is delivered the entity record and every bundled component
\* record are Created.
C14_CreationAtomicUnlessRemoved ==
    [][ /\ (PopStep /\ Head(mgr.queued_messages).t = "CreateEntity") =>
              LET a == Last(mgr'.sent_messages[cur])
              IN  /\ a.t = "CreateEntity"
                  /\ BundledKeys(a) = mgr.local_entity_store[a.k].components
                  /\ \A c \in BundledKeys(a) : ~AddComponentOutstanding(mgr', c, a.id)
        /\ DeliverStep =>
              \A a \in CreateEntitiesIn(mgr, ack) :
                  a.k \notin mgr.delayed_entity_deletions =>
                      /\ mgr'.local_entity_store[a.k].status = "Created"
                      /\ \A c \in BundledKeys(a) :
                            /\ mgr'.replicate_records[c].status = "Created"
                            /\ ~AddComponentOutstanding(mgr', c, a.id) ]_vars

\* C15: whenever an entity record is Deleting, the record of every component
\* of the entity is Deleting too.
C15_DeletingEntityHasDeletingComponents ==
    \A e \in EntKeys :
        mgr.local_entity_store[e].status = "Deleting" =>
            \A c \in mgr.local_entity_store[e].components :
                mgr.replicate_records[c].status = "Deleting"

\* C16: add_component on an entity whose record is Deleting leaves the
\* replicate records (and with them the registered masks), the local keys and
\* the queue as they were; on a Creating entity it enqueues nothing; on a
\* Created entity it enqueues exactly one AddComponent, for the component.
C16_AddComponentByEntityStatus ==
    [][ \A e \in EntKeys, c \in CompKeys :
          AddComponent(e, c) =>
            CASE mgr.local_entity_store[e].status = "Deleting" ->
                    /\ mgr'.replicate_records = mgr.replicate_records
                    /\ mgr'.replicate_key_generator = mgr.replicate_key_generator
                    /\ mgr'.queued_messages = mgr.queued_messages
              [] mgr.local_entity_store[e].status = "Creating" ->
                    mgr'.queued_messages = mgr.queued_messages
              [] OTHER ->
                    /\ Front(mgr'.queued_messages) = mgr.queued_messages
                    /\ Last(mgr'.queued_messages).t = "AddComponent"
                    /\ Last(mgr'.queued_messages).k = c ]_vars

\* C17: a call that violates the contract of the manager panics: adding an
\* object, entity or component that already exists on the connection, removing
\* an object or an entity that does not exist on it, assigning a pawn (object
\* or entity) that was never added, unassigning a pawn that is not assigned.
C17_ContractViolationsPanic ==
    [][ /\ \A k \in ObjKeys :
              /\ (AnyAddObject(k) /\ HasRecord(mgr, k)) => mgr'.panicked
              /\ (AnyRemoveObject(k) /\ ~HasRecord(mgr, k)) => mgr'.panicked
              /\ (AnyAddPawn(k) /\ ~HasRecord(mgr, k)) => mgr'.panicked
              /\ (AnyRemovePawn(k) /\ ~has_pawn(mgr, k)) => mgr'.panicked
        /\ \A e \in EntKeys :
              /\ \A comps \in SUBSET OneComp, list \in ListsOf(OneComp) :
                    (AnyAddEntity(e, comps, list) /\ HasEntityRecord(mgr, e))
                        => mgr'.panicked
              /\ \A c \in OneComp :
                    (AnyAddComponent(e, c) /\ HasRecord(mgr, c)) => mgr'.panicked
              /\ (AnyRemoveEntity(e) /\ ~HasEntityRecord(mgr, e)) => mgr'.panicked
              /\ (AnyAddPawnEntity(e) /\ ~HasEntityRecord(mgr, e)) => mgr'.panicked
              /\ (AnyRemovePawnEntity(e) /\ ~has_pawn_entity(mgr, e)) => mgr'.panicked
      ]_vars

\* the payload size write_replicate_action compares with MTU_SIZE
NextPayloadSize(w, a) ==
    bytes_number(w) + TotalBytes(a) + (IF w.replicate_action_count = 0 THEN 2 ELSE 0)

\* the calls of write_replicate_action that return: the writer changes only
\* when the payload stays within MTU_SIZE and the counter within 255, and then
\* by the bytes of the action and one on the counter; the other calls that
\* return, return false with the writer as it was.  The calls that do not
\* return are those with an entity of more than 255 components; they leave
\* the writer as it was.
ReturningWritesExact ==
    [][ \A a \in WriterInputs :
          WriteReplicateAction(a) =>
            /\ pw' # pw =>
                  /\ NextPayloadSize(pw, a) <= MTU_SIZE
                  /\ pw.replicate_action_count + 1 <= 255
                  /\ pw'.replicate_action_count = pw.replicate_action_count + 1
                  /\ pw'.replicate_working_bytes = pw.replicate_working_bytes + TotalBytes(a)
                  /\ ~pwLog'.panicked
                  /\ pwLog'.ok = "true"
            /\ pwLog'.panicked <=> TooManyComponents(a)
            /\ pwLog'.panicked => pw' = pw
            /\ (/\ ~pwLog'.panicked
                /\ \/ NextPayloadSize(pw, a) > MTU_SIZE
                   \/ pw.replicate_action_count + 1 > 255)
                  => pwLog'.ok = "false"
            /\ pwLog'.ok = "false" => pw' = pw
            /\ pw'.replicate_action_count = pwLog'.written ]_vars

\* C18: write_replicate_action changes the writer only when the resulting
\* payload does not exceed MTU_SIZE and the counter does not exceed 255, and
\* then it appends the bytes of the action, adds one to the counter and
\* returns true; otherwise (the payload would exceed MTU_SIZE or the counter
\* 255) it returns false and the counter and the bytes are unchanged; the
\* counter always equals the number of actions written into the packet.
C18_WriterCounterExact ==
    [][ \A a \in WriterInputs :
          WriteReplicateAction(a) =>
            /\ pw' # pw =>
                  /\ NextPayloadSize(pw, a) <= MTU_SIZE
                  /\ pw.replicate_action_count + 1 <= 255
                  /\ pw'.replicate_action_count = pw.replicate_action_count + 1
                  /\ pw'.replicate_working_bytes = pw.replicate_working_bytes + TotalBytes(a)
                  /\ pwLog'.ok = "true"
            /\ (\/ NextPayloadSize(pw, a) > MTU_SIZE
                \/ pw.replicate_action_count + 1 > 255)
                  => (pwLog'.ok = "false" /\ pw' = pw)
            /\ pwLog'.ok = "false" => pw' = pw
            /\ pw'.replicate_action_count = pwLog'.written ]_vars

\* C19: the connection state of the client changes only from
\* AwaitingChallengeResponse to AwaitingConnectResponse and from
\* AwaitingConnectResponse to Connected (and away from Connected when the
\* connection is dropped); in particular a ServerConnectResponse received in
\* AwaitingChallengeResponse does not connect the client.
C19_HandshakeOrder ==
    [][ client'.connection_replicate # client.connection_replicate =>
          \/ /\ client.connection_replicate = "AwaitingChallengeResponse"
             /\ client'.connection_replicate = "AwaitingConnectResponse"
          \/ /\ client.connection_replicate = "AwaitingConnectResponse"
             /\ client'.connection_replicate = "Connected"
             /\ client'.server_connection
          \/ client.connection_replicate = "Connected" ]_vars

\* C20: a ServerChallengeResponse is accepted (digest stored, tick manager
\* seeded with the server tick, state AwaitingConnectResponse) only when the
\* client is in AwaitingChallengeResponse and the echoed timestamp is its own
\* pending timestamp; otherwise the state, the digest, the tick and the
\* handshake request the client sends are as before.
C20_ChallengeResponseAccepted ==
    [][ \A t \in Ticks, ts \in Timestamps, d \in Digests :
          ReceiveChallengeResponse(t, ts, d) =>
            IF /\ client.connection_replicate = "AwaitingChallengeResponse"
               /\ client.pre_connection_timestamp = <<ts>>
            THEN /\ client'.pre_connection_digest = <<d>>
                 /\ client'.initial_tick = <<t>>
                 /\ client'.connection_replicate = "AwaitingConnectResponse"
            ELSE /\ client'.connection_replicate = client.connection_replicate
                 /\ client'.pre_connection_digest = client.pre_connection_digest
                 /\ client'.initial_tick = client.initial_tick
                 /\ HandshakeRequest(client') = HandshakeRequest(client) ]_vars

\* the client accepted a response to its challenge and ignored a later one
C20_AcceptedThenIgnored ==
    /\ client.connection_replicate = "AwaitingConnectResponse"
    /\ client.pre_connection_digest # << >>
    /\ hs.response = "ignored"
    /\ hs.last # << >>

\* C21: when the connection times out, receive() returns Disconnection, the
\* first and only one for that connection, leaves no ServerConnection, no
\* pending timestamp and no digest, and the state AwaitingChallengeResponse;
\* nothing is sent in that call, and the next handshake request is a
\* ClientChallengeRequest with a new timestamp.  Disconnection is returned by
\* no other step.
C21_TimeoutResetsClient ==
    [][ /\ DropConnection =>
              /\ hs'.event = "Disconnection"
              /\ hs'.disconnections = 1
              /\ ~client'.server_connection
              /\ link' = ServerConnectionNew
              /\ client'.pre_connection_timestamp = << >>
              /\ client'.pre_connection_digest = << >>
              /\ client'.connection_replicate = "AwaitingChallengeResponse"
              /\ hs'.sent = {}
              /\ \A now \in Timestamps :
                    HandshakeRequest(handshake_send(client', now)) =
                        <<[type |-> "ClientChallengeRequest",
                           timestamp |-> <<now>>, digest |-> << >>]>>
        /\ hs'.disconnections # hs.disconnections /\ hs'.disconnections > 0 =>
              client.server_connection /\ should_drop(link) ]_vars

\* a connection was dropped after the whole handshake
C21_DroppedAfterHandshake ==
    /\ hs.event = "Disconnection"
    /\ hs.disconnections = 1
    /\ hs.response = "accepted"
    /\ ~client.server_connection

\* C22: when the socket reports an error, receive() returns one wrapped error
\* and no ServerConnection remains afterwards.
C22_SocketErrorTearsDown ==
    [][ SocketError => (hs'.event = "Error" /\ ~client'.server_connection) ]_vars

\* C23: a malformed packet (a ServerChallengeResponse with a truncated
\* payload, a packet of an unknown type) is dropped silently: receive() does
\* not abort, returns no event for it, and the client is as before.
C23_MalformedPacketIgnored ==
    [][ ((\E len \in ShortLengths : ReceiveShortChallengeResponse(len))
            \/ ReceiveUnknownPacket) =>
          /\ ~client'.panicked
          /\ hs'.event = "none"
          /\ client' = client ]_vars

\* C24: on a connection, receive() sends a Heartbeat exactly when nothing was
\* sent or heard for heartbeat_interval, so never sooner than one interval
\* after the previous Heartbeat; sending any packet, the Heartbeat included,
\* restarts the interval, and so does a packet heard from the server.
C24_HeartbeatPerInterval ==
    [][ /\ ConnectedSend =>
              /\ "Heartbeat" \in hs'.sent <=> link.heartbeat_timer >= HeartbeatInterval
              /\ "Heartbeat" \in hs'.sent => hs.gap >= HeartbeatInterval
              /\ hs'.sent # {} => link'.heartbeat_timer = 0
        /\ ReceivePeerPacket => link'.heartbeat_timer = 0 ]_vars

\* a Heartbeat alone was sent after an interval of silence
C24_HeartbeatInSilence ==
    /\ client.server_connection
    /\ hs.sent = {"Heartbeat"}
    /\ hs.gap = 0
    /\ link.heartbeat_timer = 0
    /\ link.timeout_timer >= HeartbeatInterval

\* the ticks of the history, most recent first, whose wrapping difference to
\* the host tick is in 1 .. 255
RECURSIVE EligiblePast(_, _)
EligiblePast(iter, host_tick) ==
    IF iter = << >> THEN << >>
    ELSE LET rest == EligiblePast(Tail(iter), host_tick)
             d == wrapping_diff(Head(iter), host_tick)
         IN  IF d \in 1 .. 255 THEN <<d>> \o rest ELSE rest

\* C25: a command written into a packet carries the most recent past
\* commands of the pawn whose wrapping tick difference to the host tick is in
\* 1 .. 255, three of them when the history holds that many, never more than
\* three, and the count byte of its header is the number of past commands
\* serialized after it.
C25_PastCommandsBundled ==
    cmds.command # << >> =>
        LET c == cmds.command[1]
            eligible == EligiblePast(Reversed(cmds.seen), cmds.host_tick)
        IN  /\ Len(c.past) <= 3
            /\ c.past_command_index = Len(c.past)
            /\ \A i \in 1 .. Len(c.past) : c.past[i] \in 1 .. 255
            /\ Len(c.past) = (IF Len(eligible) < 3 THEN Len(eligible) ELSE 3)
            /\ c.past = SubSeq(eligible, 1, Len(c.past))

\* a command was written with three past commands out of four in the history
C25_ThreeOfFour ==
    /\ cmds.command # << >>
    /\ Len(cmds.seen) = 4
    /\ Len(EligiblePast(Reversed(cmds.seen), cmds.host_tick)) = 4
    /\ cmds.command[1].past_command_index = 3

\* C26: the channels of payloads between the async transport and its callers
\* are bounded: each holds at most a fixed number of payloads, so a producer
\* is stopped by its channel before the exploration stops it at MaxBuffered
\* payloads.
C26_QueuesBounded ==
    /\ Len(sock.from_client) < MaxBuffered
    /\ Len(sock.to_client) < MaxBuffered

\* an assignment through deref_mut, or mirror, to a Property with a mutator
\* calls the mutator once with the property's mutator_index; deref,
\* Property::read and Property::new_read call it never
DerefMutNotified ==
    /\ (pr'.op \in {"deref_mut", "mirror"} /\ pr.p.mutator)
          => notes' = Append(notes, pr.p.mutator_index)
    /\ pr'.op \in {"deref", "read", "new_read"} => notes' = notes

DerefMutNotifies == [][DerefMutNotified]_vars

\* a mutable access of any kind that changes a replicated property whose
\* mutator is attached calls the mutator; applying a value received from the
\* network does not
AccessNotified ==
    /\ DerefMutNotified
    /\ (pr'.op \in {"field_mut", "reflect_set", "reflect_apply"} /\ pr.p.mutator)
          => notes' = Append(notes, pr.p.mutator_index)
    /\ (pr'.op = "deque_set" /\ \E i \in 1 .. Len(pr.q) : pr.q[i].mutator)
          => notes' # notes
    /\ (pr'.op = "deque_mirror" /\ pr.q # << >> /\ pr.q[1].mutator)
          => notes' # notes
    /\ pr'.op \in {"deque_read", "deque_new_read"} => notes' = notes

\* C27: every mutable access to a property with a mutator attached calls the
\* mutator with the property's mutator_index (mirror too, whether or not the
\* value changes); reading the value and applying a value received from the
\* network (read, new_read) call the mutator never.
C27_MutableAccessNotifies == [][AccessNotified]_vars

\* C28: with n replicated properties declared, the diff mask has ceil(n/8)
\* bytes (none for n = 0), the i-th property in declaration order, of any of
\* the three types, is constructed with mutator_index i, and an update
\* written for a mask writes and applies exactly the properties whose index
\* is a bit set in the mask.
C28_MaskSizeAndIndices ==
    LET n == Len(rp.fields)
    IN  /\ rp.diff_mask_size = (n + 7) \div 8
        /\ Len(rp.replica) = n
        /\ \A i \in 1 .. n : /\ rp.replica[i].mutator_index = i - 1
                              /\ rp.replica[i].type = rp.fields[i]
        /\ rp.update # << >> =>
              /\ \A i \in 1 .. n : rp.update[i] = ((i - 1) \in rp.mask)
              /\ rp.applied = {i \in 1 .. n : (i - 1) \in rp.mask}

\* nine properties, the ninth a VecDequeEntityProperty: two bytes of mask,
\* and an update for bit 8 wrote and applied the ninth property alone
C28_NinthProperty ==
    /\ Len(rp.fields) = 9
    /\ rp.fields[9] = "VecDequeEntityProperty"
    /\ rp.fields[8] = "EntityProperty"
    /\ rp.diff_mask_size = 2
    /\ rp.mask = {8}
    /\ rp.applied = {9}

\* the number of entries of a list that are the reliable action enqueued as
\* number id
RECURSIVE CountId(_, _)
CountId(list, id) ==
    IF list = << >> THEN 0
    ELSE (IF Head(list).id = id /\ Head(list).t \in ReliableTypes THEN 1 ELSE 0)
         + CountId(Tail(list), id)

RECURSIVE CountInPackets(_, _, _)
CountInPackets(s, ps, id) ==
    IF ps = {} THEN 0
    ELSE LET p == CHOOSE q \in ps : TRUE
         IN  CountId(s.sent_messages[p], id) + CountInPackets(s, ps \ {p}, id)

\* the places the reliable action number id is in: the queue and the lists
\* of the packets in flight
PlacesOf(s, id) ==
    CountId(s.queued_messages, id) + CountInPackets(s, DOMAIN s.sent_messages, id)

\* the times the client was delivered the action number id
DeliveriesOf(id) == Cardinality({i \in DOMAIN clientLog : clientLog[i].id = id})

\* C29: a reliable action is never in two places and never delivered twice;
\* a step keeps each reliable action in exactly one place (the queue or the
\* list of one packet in flight) unless it delivers it, after which it is
\* in no place; when packet i is reported dropped, its reliable actions
\* join the tail of the queue in their order and its list is removed.
C29_ReliableNeitherLostNorDuplicated ==
    [][/\ \A id \in 1 .. mgr'.enqueued :
             /\ PlacesOf(mgr', id) + DeliveriesOf(id)' <= 1
             /\ PlacesOf(mgr, id) = 1 =>
                   PlacesOf(mgr', id) + DeliveriesOf(id)' = 1
       /\ DropStep =>
             /\ mgr'.queued_messages =
                    mgr.queued_messages \o ReliableOf(SentIn(mgr, ack))
             /\ ack \notin DOMAIN mgr'.sent_messages]_vars

\* a packet with two reliable actions was dropped and both are at the tail of
\* the queue, in the order of the packet, behind an action enqueued later
C29_DroppedPairRequeued ==
    LET q == mgr.queued_messages
    IN  /\ Len(q) >= 3
        /\ \E p \in Packets : packets[p].fate = "dropped" /\ packets[p].written >= 2
        /\ q[Len(q) - 1].t \in ReliableTypes /\ q[Len(q)].t \in ReliableTypes
        /\ q[Len(q) - 1].id < q[Len(q)].id
        /\ q[Len(q)].id < q[1].id

\* a step that pops an update action into the current packet
UpdatePopStep == PopStep /\ lastPop'[1].a.t \in UpdateTypes

\* a step that mutates a property of a replicate
MutateStep ==
    /\ calls' = calls + 1
    /\ mgr'.queued_messages = mgr.queued_messages
    /\ \E k \in Keys : /\ HasRecord(mgr, k) /\ HasRecord(mgr', k)
                        /\ mgr'.replicate_records[k].diff_mask
                              # mgr.replicate_records[k].diff_mask

\* C30: popping an update of key k into packet i returns an action whose mask
\* is the live mask of k at that moment, records that mask as
\* sent_updates[i][k] and clears the live mask; a mutation afterwards changes
\* no mask of sent_updates; the delivery of packet i removes sent_updates[i]
\* and changes no live mask.
C30_UpdateCarriesSnapshot ==
    [][/\ UpdatePopStep =>
            LET a == lastPop'[1].a
            IN  /\ HasRecord(mgr, a.k) => a.m = mgr.replicate_records[a.k].diff_mask
                /\ cur \in DOMAIN mgr'.sent_updates
                /\ a.k \in DOMAIN mgr'.sent_updates[cur]
                /\ mgr'.sent_updates[cur][a.k] = a.m
                /\ HasRecord(mgr', a.k) => mgr'.replicate_records[a.k].diff_mask = {}
       /\ MutateStep => mgr'.sent_updates = mgr.sent_updates
       /\ DeliverStep =>
            /\ ack \notin DOMAIN mgr'.sent_updates
            /\ \A k \in Keys : HasRecord(mgr, k) /\ HasRecord(mgr', k) =>
                    mgr'.replicate_records[k].diff_mask
                        = mgr.replicate_records[k].diff_mask]_vars

\* an update with bit 0 is in flight, its mask is recorded for its packet,
\* and a mutation made after the pop set another bit in the live mask only
C30_MutatedAfterPop ==
    \E p \in DOMAIN mgr.sent_updates : \E k \in DOMAIN mgr.sent_updates[p] :
        /\ p < cur /\ p >= ack
        /\ HasRecord(mgr, k)
        /\ mgr.sent_updates[p][k] # {}
        /\ mgr.replicate_records[k].diff_mask # {}
        /\ mgr.replicate_records[k].diff_mask \cap mgr.sent_updates[p][k] = {}

\* the AddComponent actions for component c in a queue
AddComponentsQueued(q, c) ==
    Cardinality({i \in DOMAIN q : q[i].t = "AddComponent" /\ q[i].k = c})

\* C31: when a CreateEntity is delivered and the deletion of its entity is
\* not pending, the delivery enqueues exactly one AddComponent for every
\* component of the entity that the action did not bundle and whose record is
\* Creating, and none for a component it bundled; a CreateEntity popped
\* (again, after a drop) bundles every component the entity has by then.
C31_LateComponentNotLost ==
    [][ /\ (DeliverStep /\ ~mgr'.panicked) =>
              \A a \in CreateEntitiesIn(mgr, ack) :
                  a.k \notin mgr.delayed_entity_deletions =>
                      \A c \in mgr.local_entity_store[a.k].components :
                          LET added == AddComponentsQueued(mgr'.queued_messages, c)
                                       - AddComponentsQueued(mgr.queued_messages, c)
                          IN  /\ (c \notin BundledKeys(a)
                                   /\ mgr.replicate_records[c].status = "Creating")
                                  => added = 1
                              /\ c \in BundledKeys(a) => added = 0
        /\ (PopStep /\ Head(mgr.queued_messages).t = "CreateEntity") =>
              BundledKeys(Last(mgr'.sent_messages[cur]))
                  = mgr.local_entity_store[Head(mgr.queued_messages).k].components ]_vars

\* action a, delivered, is the delete that retires the present record of
\* replicate k: a DeleteReplicate of k that carries the record's local key
\* and was requested after the record was installed, or the DeleteEntity of
\* the present record of the entity that holds k
RetiredBy(a, k) ==
    \/ /\ a.t = "DeleteReplicate"
       /\ a.k = k
       /\ a.lk = mgr.replicate_records[k].local_key
       /\ a.id > mgr.replicate_records[k].born
    \/ /\ a.t = "DeleteEntity"
       /\ k \in mgr.local_entity_store[a.k].components
       /\ a.lk = mgr.local_entity_store[a.k].local_key
       /\ a.id > mgr.local_entity_store[a.k].born

\* action a, delivered, is the delete that retires the present record of
\* entity e
RetiresEntity(a, e) ==
    /\ a.t = "DeleteEntity"
    /\ a.k = e
    /\ a.lk = mgr.local_entity_store[e].local_key
    /\ a.id > mgr.local_entity_store[e].born

\* the local keys held by live records are distinct and none of them waits
\* in the list of recycled keys
LocalKeysDistinct(s) ==
    /\ \A k1, k2 \in Keys :
          (k1 # k2 /\ HasRecord(s, k1) /\ HasRecord(s, k2)) =>
              s.replicate_records[k1].local_key # s.replicate_records[k2].local_key
    /\ \A k \in Keys : HasRecord(s, k) =>
          \A i \in DOMAIN s.replicate_key_generator.recycled :
              s.replicate_key_generator.recycled[i] # s.replicate_records[k].local_key
    /\ \A e \in EntKeys : HasEntityRecord(s, e) =>
          \A i \in DOMAIN s.entity_key_generator.recycled :
              s.entity_key_generator.recycled[i] # s.local_entity_store[e].local_key

\* C32: a replicate record is removed, and its local key recycled, only by
\* the delivery of a packet that carries the delete that retires it (the
\* DeleteReplicate requested for this record, or the DeleteEntity of its
\* entity), and the delivery of a DeleteReplicate removes the record and the
\* pawn designation and recycles the local key; an entity record is removed
\* only by the delivery of its own DeleteEntity, which removes it together
\* with the records of its components; no two live records share a local
\* key and no live record's key is recycled.
C32_CleanupOnDeleteAck ==
    [][ /\ LocalKeysDistinct(mgr')
        /\ \A k \in Keys : (HasRecord(mgr, k) /\ ~HasRecord(mgr', k)) =>
              /\ DeliverStep
              /\ \E i \in DOMAIN SentIn(mgr, ack) : RetiredBy(SentIn(mgr, ack)[i], k)
              /\ k \notin mgr'.pawn_object_store
              /\ \E i \in DOMAIN mgr'.replicate_key_generator.recycled :
                    mgr'.replicate_key_generator.recycled[i]
                        = mgr.replicate_records[k].local_key
        /\ \A e \in EntKeys : (HasEntityRecord(mgr, e) /\ ~HasEntityRecord(mgr', e)) =>
              /\ DeliverStep
              /\ \E i \in DOMAIN SentIn(mgr, ack) : RetiresEntity(SentIn(mgr, ack)[i], e)
              /\ \A c \in mgr.local_entity_store[e].components : ~HasRecord(mgr', c)
        /\ DeliverStep =>
              \A i \in DOMAIN SentIn(mgr, ack) :
                  LET a == SentIn(mgr, ack)[i]
                  IN  /\ a.t = "DeleteReplicate" => ~HasRecord(mgr', a.k)
                      /\ a.t = "DeleteEntity" => ~HasEntityRecord(mgr', a.k) ]_vars

\* a step in which the handshake timer rang
RingStep == ~client.server_connection /\ hs'.sent # {}

\* a ring sends one request, the one of the state the client is in, with the
\* timestamp of the attempt; a timestamp once taken is kept until the
\* connection is dropped
RingSendsOneRequest ==
    /\ RingStep =>
          /\ Len(hs'.last) = 1
          /\ hs'.sent = {hs'.last[1].type}
          /\ client'.connection_replicate = client.connection_replicate
          /\ client'.pre_connection_digest = client.pre_connection_digest
          /\ hs'.last[1].timestamp = client'.pre_connection_timestamp
          /\ hs'.last[1].timestamp # << >>
          /\ client.connection_replicate = "AwaitingChallengeResponse" =>
                /\ hs'.last[1].type = "ClientChallengeRequest"
                /\ hs'.last[1].digest = << >>
          /\ client.connection_replicate = "AwaitingConnectResponse" =>
                /\ hs'.last[1].type = "ClientConnectRequest"
                /\ hs'.last[1].digest = client.pre_connection_digest
                /\ hs'.last[1].digest # << >>
          /\ client.connection_replicate \in
                {"AwaitingChallengeResponse", "AwaitingConnectResponse"}
    /\ client.pre_connection_timestamp # << >> =>
          \/ client'.pre_connection_timestamp = client.pre_connection_timestamp
          \/ /\ client'.pre_connection_timestamp = << >>
             /\ hs'.event = "Disconnection"

\* C33: while there is no connection, each ring of the handshake timer sends
\* exactly one request, a ClientChallengeRequest with the timestamp in
\* AwaitingChallengeResponse and a ClientConnectRequest with the timestamp
\* and the digest in AwaitingConnectResponse; the timestamp is taken once and
\* reused by every retry of the attempt; and when the timer keeps ringing
\* and the answers keep arriving, the client without a connection
\* eventually is Connected.
C33_HandshakeRetries ==
    /\ [][RingSendsOneRequest]_vars
    /\ (~client.server_connection) ~>
           (client.server_connection /\ client.connection_replicate = "Connected")

\* connected after three requests, the last of them a connect request
C33_ConnectedAfterRetries ==
    /\ client.server_connection
    /\ hs.requests = MaxRequests
    /\ hs.last # << >>
    /\ hs.last[1].type = "ClientConnectRequest"
    /\ hs.last[1].timestamp = client.pre_connection_timestamp
    /\ hs.disconnections = 0

\* the replica the client must hold after the update
Expected(s, r, mask) ==
    [i \in 1 .. Len(r) |-> IF (i - 1) \in mask THEN s[i] ELSE r[i]]

\* C34: the update written by write_update for replica s and mask m, copied
\* by read_create_update and applied by read_apply_update to a replica r of
\* the same type, gives the properties whose bit is set the values of s and
\* leaves the others as they were; read_create_update consumes exactly what
\* was written and read_apply_update exactly the copy; with every bit set
\* r becomes s.
C34_PartialUpdateRoundTrip ==
    rp.trip.done =>
        /\ rp.trip.created.ok
        /\ rp.trip.created.pos = Len(rp.trip.bytes) + 1
        /\ rp.trip.created.out = rp.trip.bytes
        /\ rp.trip.applied.ok
        /\ rp.trip.applied.pos = Len(rp.trip.bytes) + 1
        /\ rp.trip.applied.r = Expected(rp.trip.s, rp.trip.r, rp.trip.mask)
        /\ rp.trip.mask = 0 .. Len(rp.trip.r) - 1 => rp.trip.applied.r = rp.trip.s

\* the statuses a record of the given status may have after a step: "None"
\* stands for no record
StatusAfter(st) ==
    CASE st = "None" -> {"None", "Creating"}
      [] st = "Creating" -> {"Creating", "Created", "Deleting", "None"}
      [] st = "Created" -> {"Created", "Deleting", "None"}
      [] st = "Deleting" -> {"Deleting", "None"}

\* C35: the status of a replicate record and of an entity record only moves
\* from Creating to Created, from Creating or Created to Deleting, and to the
\* removal of the record; a record that is Deleting never is Created or
\* Creating again.
C35_StatusMonotone ==
    [][/\ \A k \in Keys :
            mgr'.replicate_records[k].status \in
                StatusAfter(mgr.replicate_records[k].status)
       /\ \A e \in EntKeys :
            mgr'.local_entity_store[e].status \in
                StatusAfter(mgr.local_entity_store[e].status)]_vars

\* the state of the client is Connected
IsConnected(c) == c.connection_replicate = "Connected"

\* the connection and the state Connected are set in one step and cleared
\* in one step
SetAndClearedTogether ==
    /\ (~client.server_connection /\ client'.server_connection) =>
          /\ ~IsConnected(client)
          /\ IsConnected(client')
          /\ hs'.event = "Connection"
    /\ (client.server_connection /\ ~client'.server_connection) =>
          /\ IsConnected(client)
          /\ ~IsConnected(client')
          /\ should_drop(link)
          /\ hs'.event = "Disconnection"

\* C36: the state of the client is Connected exactly when it holds a
\* ServerConnection; the two are set in the same step, the one that takes a
\* ServerConnectResponse and emits Connection, and cleared in the same step,
\* the one that drops the connection on timeout and emits Disconnection.
C36_ConnectedIffConnection ==
    /\ [](IsConnected(client) <=> client.server_connection)
    /\ [][SetAndClearedTogether]_vars

\* a connection was made and then dropped on timeout
C36_DroppedAfterConnected ==
    /\ hs.event = "Disconnection"
    /\ hs.disconnections = 1
    /\ ~client.server_connection
    /\ client.connection_replicate = "AwaitingChallengeResponse"

\* C37: a client in AwaitingConnectResponse holds both the timestamp and the
\* digest of the challenge; a client in AwaitingChallengeResponse that has
\* not yet taken the timestamp of a request holds no digest.
C37_HandshakeFieldsPresent ==
    /\ client.connection_replicate = "AwaitingConnectResponse" =>
          /\ client.pre_connection_timestamp # << >>
          /\ client.pre_connection_digest # << >>
          /\ client.pre_connection_digest[1] \in Digests
    /\ (client.connection_replicate = "AwaitingChallengeResponse"
          /\ client.pre_connection_timestamp = << >>) =>
          client.pre_connection_digest = << >>

\* a connect request with timestamp and digest was sent in
\* AwaitingConnectResponse, after an earlier connection was dropped
C37_SecondAttemptAwaitsConnect ==
    /\ client.connection_replicate = "AwaitingConnectResponse"
    /\ hs.disconnections = 1
    /\ hs.last # << >>
    /\ hs.last[1].type = "ClientConnectRequest"
    /\ hs.last[1].digest = client.pre_connection_digest

\* a step that notifies the manager of packet i again
NotifyAgainStep(i) == packets[i].fate # "again" /\ packets'[i].fate = "again"

\* C38: notify_packet_delivered(i) and notify_packet_dropped(i) for an index
\* without an entry in sent_messages, because no packet was written under it
\* or because the packet was notified before, change nothing in the manager:
\* no status, no queue, no mask, no record.
C38_NotifyIdempotent ==
    [][\A i \in Packets : NotifyAgainStep(i) =>
          /\ i \notin DOMAIN mgr.sent_messages
          /\ mgr' = mgr]_vars

\* a packet that carried actions was notified a second time, another packet
\* was dropped, and the delete of a record is queued again
C38_NotifiedTwice ==
    /\ \E i \in Packets : packets[i].fate = "again" /\ packets[i].written > 0
    /\ \E p \in Packets : packets[p].fate = "dropped"
    /\ mgr.queued_messages # << >>
    /\ \E k \in ObjKeys : mgr.replicate_records[k].status = "Deleting"

\* a step in which the first handshake packet since the connection was made
\* arrives on it
LateStep == ~hs.late /\ hs'.late

\* the late packet changes nothing but the timers of mark_heard, and the
\* Connection event comes only with a new connection
LatePacketIgnored ==
    /\ LateStep =>
          /\ client' = client
          /\ link' = mark_heard(link)
          /\ hs'.event = "none"
          /\ hs'.sent = {}
    /\ (hs'.event = "Connection" /\ hs.event # "Connection") =>
          /\ ~client.server_connection
          /\ client'.server_connection

\* C39: a ServerChallengeResponse or ServerConnectResponse that arrives while
\* the client holds a ServerConnection emits no Connection event and leaves
\* the client and its connection as they are, the connection only marked as
\* heard; the Connection event is emitted by the step that makes the
\* connection and by no other.
C39_OneConnectionEvent ==
    /\ [](client.server_connection =>
            /\ receive_connect_response(client) = client
            /\ \A t \in Ticks, ts \in Timestamps, d \in Digests :
                  receive_challenge_response(client, t, ts, d) = client)
    /\ [][LatePacketIgnored]_vars

\* a handshake packet arrived on a connection that had a message queued and
\* its ping timer running, and both are still there
C39_LatePacketOnConnection ==
    /\ client.server_connection
    /\ hs.late
    /\ hs.event = "none"
    /\ link.timeout_timer = 0
    /\ link.ping_timer > 0
    /\ link.outgoing = 1

\* C40: in every interleaving of the receiver task, the sender task and the
\* caller, a payload reaches the async sender only after the async socket was
\* created and its sender taken by the sender task; what the caller sent is,
\* in the order sent and once each, what the async sender got, followed by
\* the payload the sender task holds, followed by what still waits in
\* to_client, the payloads sent before the hand-over included; and what the
\* async socket received is, in order and once each, what the packet
\* receiver took out of from_client, followed by what waits in from_client,
\* followed by the payload the receiver task holds; without a link
\* conditioner the caller gets exactly what the packet receiver took.
C40_ForwardedInOrder ==
    /\ (sock.wire # << >> \/ sock.sending # << >>)
          => (sock.io /\ sock.sender_channel = "taken")
    /\ sock.sender_channel # "taken" => Len(sock.to_client) = Len(sock.sent)
    /\ sock.wire \o sock.sending \o sock.to_client = sock.sent
    /\ sock.taken \o sock.from_client \o sock.receiving = sock.heard
    /\ ~sock.link_condition => sock.got = sock.taken

\* two different payloads were sent before the sender was taken and the
\* async sender has got them and a later one, while the other direction
\* delivered two different payloads too
C40_EarlyPayloadsForwarded ==
    /\ ~sock.link_condition
    /\ sock.early = 2
    /\ Len(sock.wire) = 3
    /\ sock.wire[1] # sock.wire[2]
    /\ Len(sock.got) = 2
    /\ sock.got[1] # sock.got[2]
====
